---- MODULE Spec2Model ----
(***************************************************************************)
(* State-machine model of the SavingsVault ledger and the VVSYieldStrategy *)
(* pool accounting.  One action per external function of the contracts;    *)
(* every action is a whole transaction: it either commits all the          *)
(* assignments of the handler or reverts and leaves the contract state     *)
(* untouched.  Each handler is an operator that computes the outcome of a  *)
(* call (its error, or "ok" and the state it commits) from the current     *)
(* state and the call's inputs; the action applies the outcome.  A         *)
(* reverted call changes nothing.                                          *)
(*                                                                         *)
(* Amounts are counted in units of 0.5 USDC (500000 of the token's         *)
(* 6-decimal micro-units), so that the contract constants keep their       *)
(* proportions within 32-bit integers: MIN_DEPOSIT = 1e6 micro-units is 2  *)
(* units and MAX_SAVE_AMOUNT = 10000e6 micro-units is 20000 units.  The    *)
(* unit is the smallest amount of the model: integer division truncates    *)
(* at the unit as the contracts' truncates at the micro-unit, and an odd   *)
(* number of units stands for an amount that does not split into two       *)
(* equal halves (1000001 micro-units, say).  Time is in seconds.           *)
(***************************************************************************)
EXTENDS Integers, FiniteSets, Sequences, TLC

\* ---------------------------------------------------------------------
\* Program constants
\* ---------------------------------------------------------------------
MIN_DEPOSIT == 2

MAX_SAVE_AMOUNT == 20000

MIN_SAVE_INTERVAL == 86400

slippageTolerance == 50

BPS == 10000

\* ---------------------------------------------------------------------
\* Bounds of the model
\* ---------------------------------------------------------------------
\* USDC every user holds in their wallet initially.
InitialFunds == 3

\* Cap on an account's cumulative totalDeposited.
MaxTotal == 3

\* USDC the vault holds when the strategy is explored on its own.
StrategyFunds == 3000

\* Number of committed calls explored on the strategy on its own.
MaxCalls == 3

\* Depth of the calls explored inside one transaction.
MaxDepth == 4

\* Number of rate-limit windows the clock may run through.
MaxIntervals == 1

\* block.timestamp of the first transaction.
StartTime == 1

MaxTime == StartTime + MaxIntervals * (MIN_SAVE_INTERVAL + 1)

\* ---------------------------------------------------------------------
\* Identities
\* ---------------------------------------------------------------------
ZERO == "0x0"

OWNER == "owner"

BACKEND == "backend"

VAULT == "vault"

STRATEGY == "strategy"

Users == {"alice", "bob"}

\* The account explored with every input; the other account is a second
\* depositor, explored with deposits and withdrawals of the minimum amount.
Primary == "alice"

\* Externally owned accounts that send transactions.
Callers == Users \cup {BACKEND, OWNER}

\* Holders of USDC whose balance the model tracks.
Holders == Callers \cup {VAULT, STRATEGY}

TrustModes == {"MANUAL", "AUTO"}

\* Amounts passed to deposit, depositFor and withdraw: zero, below the
\* minimum, the minimum, and an odd amount above it.
Amounts == {0, 1, MIN_DEPOSIT, MIN_DEPOSIT + 1}

\* Amounts passed to autoSave.
SaveAmounts == {0, 1, MIN_DEPOSIT, MAX_SAVE_AMOUNT + 1}

SettleAmounts == {MIN_DEPOSIT}

AmountsOf(user) == IF user = Primary THEN Amounts ELSE {MIN_DEPOSIT}

ModesOf(user) == IF user = Primary THEN TrustModes ELSE {"MANUAL"}

StrategyInputs == {ZERO, STRATEGY}

ServerInputs == {ZERO, BACKEND}

\* Weekly goals passed to createAccount and updateGoal.
GoalInputs == {0, 1}

BufferInputs == {0}

TimeSteps == {MIN_SAVE_INTERVAL - 1, MIN_SAVE_INTERVAL, MIN_SAVE_INTERVAL + 1}

\* Answers of the external exchange to one strategy call.
ExchangeAnswers == {"exact", "slip", "revert"}

\* The answers explored on the strategy alone: also a swap at the worst price
\* the router accepts, and a pair drained of half its reserves when liquidity
\* is removed.
StrategyAnswers == ExchangeAnswers \cup {"worst", "impact", "drained"}

\* Reserves and LP supply the USDC-USDT pair can report, in thousands of
\* units (only their proportions enter the strategy's arithmetic, and the
\* products stay within 32 bits): the proportions of the mock pair (an LP
\* token is worth one unit), and the same pool after fees grew the reserves
\* to the double (an LP token is worth two).
MockPair == [reserve0 |-> 2000, reserve1 |-> 2000, totalSupply |-> 4000]

PairStates ==
    { MockPair, [reserve0 |-> 4000, reserve1 |-> 4000, totalSupply |-> 4000] }

VARIABLES
    s_accounts,            \* SavingsVault.s_accounts
    s_totalValueLocked,    \* SavingsVault.s_totalValueLocked
    s_yieldStrategy,       \* SavingsVault.s_yieldStrategy (ZERO or STRATEGY)
    s_backendServer,       \* SavingsVault.s_backendServer
    paused,                \* Pausable._paused of the vault
    userLiquidityTokens,   \* VVSYieldStrategy.userLiquidityTokens
    totalLiquidityTokens,  \* VVSYieldStrategy.totalLiquidityTokens
    usdcBalance,           \* USDC balanceOf, per holder
    pair,                  \* reserves and supply reported by the pair
    now,                   \* block.timestamp
    strategyCalls,         \* calls made to the strategy on its own, committed
    stack,                 \* calls of the running transaction that wait on an
                           \* external call, innermost last
    entered,               \* ReentrancyGuard._status == ENTERED, per contract
    requests,              \* POST /api/save requests the backend is handling
    pendingPayments,       \* the backend's pendingPayments map: settled or not
    usedNonces,            \* EIP-3009 authorizations the token has executed
    calls                  \* calls the backend made, per payment header

vars == << s_accounts, s_totalValueLocked, s_yieldStrategy, s_backendServer,
           paused, userLiquidityTokens, totalLiquidityTokens, usdcBalance,
           pair, now, strategyCalls, stack, entered, requests,
           pendingPayments, usedNonces, calls >>

\* The state of the running transaction.
callVars == << stack, entered >>

\* The state of the backend and of the payments it handles.
backendVars == << requests, pendingPayments, usedNonces, calls >>

ledgerVars == << s_accounts, s_totalValueLocked, userLiquidityTokens,
                 totalLiquidityTokens, usdcBalance >>

adminVars == << s_yieldStrategy, s_backendServer, paused >>

\* The requests handled at the same time, the payment ids they carry and
\* their X-PAYMENT header: none, one whose signature does not verify, or one
\* of two EIP-3009 authorizations signed by the user.
Requests == {1, 2}

PaymentIds == {"pay_1", "pay_2"}

SignedHeaders == {"auth_1", "auth_2"}

Headers == {"none", "forged"} \cup SignedHeaders

NoRequest ==
    [ pc |-> "idle", paymentId |-> "pay_1", header |-> "none", amount |-> 0,
      late |-> FALSE, response |-> "none" ]

NoCalls == [verify |-> 0, settle |-> 0, settled |-> 0, depositFor |-> 0]

\* The backend starts with an empty pendingPayments map.
BackendStarts ==
    /\ requests = [r \in Requests |-> NoRequest]
    /\ pendingPayments = [p \in PaymentIds |-> FALSE]
    /\ usedNonces = {}
    /\ calls = [h \in Headers |-> NoCalls]

EmptyAccount ==
    [ totalDeposited |-> 0, totalWithdrawn |-> 0, currentBalance |-> 0,
      weeklyGoal |-> 0, safetyBuffer |-> 0, lastSaveTimestamp |-> 0,
      isActive |-> FALSE, trustMode |-> "MANUAL" ]

Init ==
    /\ s_accounts = [u \in Users |-> EmptyAccount]
    /\ s_totalValueLocked = 0
    /\ s_yieldStrategy = ZERO
    /\ s_backendServer = ZERO
    /\ paused = FALSE
    /\ userLiquidityTokens = [u \in Users |-> 0]
    /\ totalLiquidityTokens = 0
    /\ usdcBalance = [h \in Holders |-> IF h \in Users THEN InitialFunds ELSE 0]
    /\ pair = MockPair
    /\ now = StartTime
    /\ strategyCalls = 0
    /\ stack = << >>
    /\ entered = [vault |-> FALSE, strategy |-> FALSE]
    /\ BackendStarts

\* The outcome of a call: its error ("ok" when it commits) and the ledger
\* state after it.
Outcome(err, accounts, tvl, ult, tlt, bal) ==
    [ err |-> err, accounts |-> accounts, tvl |-> tvl, ult |-> ult, tlt |-> tlt,
      bal |-> bal ]

\* A reverted transaction leaves the state as it was before the call.
Reverted(err) ==
    Outcome(err, s_accounts, s_totalValueLocked, userLiquidityTokens,
            totalLiquidityTokens, usdcBalance)

\* Commit the outcome of a ledger call.
Apply(o) ==
    /\ s_accounts' = o.accounts
    /\ s_totalValueLocked' = o.tvl
    /\ userLiquidityTokens' = o.ult
    /\ totalLiquidityTokens' = o.tlt
    /\ usdcBalance' = o.bal
    /\ UNCHANGED << adminVars, pair, now, strategyCalls, callVars, backendVars >>

\* ---------------------------------------------------------------------
\* USDC (ERC20) transfers
\* ---------------------------------------------------------------------
CanPay(bal, from, amount) == bal[from] >= amount

Transfer(bal, from, to, amount) ==
    IF from = to THEN bal
    ELSE [bal EXCEPT ![from] = @ - amount, ![to] = @ + amount]

\* USDC leaves to / arrives from the exchange, whose balance is not tracked.
ToExchange(bal, from, amount) == [bal EXCEPT ![from] = @ - amount]

FromExchange(bal, to, amount) == [bal EXCEPT ![to] = @ + amount]

\* ---------------------------------------------------------------------
\* The external exchange (router and pair), as the strategy sees it
\* ---------------------------------------------------------------------
\* swapExactTokensForTokens: a 1:1 stable swap that may lose one unit to
\* price impact ("slip"), pay just amountOutMin ("worst") or pay half the
\* input ("impact"); the router reverts when the output is below amountOutMin.
RouterSwap(amountIn, amountOutMin, answer) ==
    LET out == IF answer = "slip" /\ amountIn > 0 THEN amountIn - 1
               ELSE IF answer = "worst" THEN amountOutMin
               ELSE IF answer = "impact" THEN amountIn \div 2
               ELSE amountIn
    IN  IF answer = "revert" \/ out < amountOutMin
        THEN [ok |-> FALSE, out |-> 0]
        ELSE [ok |-> TRUE, out |-> out]

\* addLiquidity: takes both desired amounts and mints LP tokens pro rata to
\* the pair's reserves (amountA + amountB at the mock pair's figures).
RouterAddLiquidity(amountADesired, amountBDesired, amountAMin, amountBMin, answer) ==
    IF answer = "revert" \/ amountADesired < amountAMin \/ amountBDesired < amountBMin
    THEN [ok |-> FALSE, amountA |-> 0, amountB |-> 0, liquidity |-> 0]
    ELSE [ok |-> TRUE, amountA |-> amountADesired, amountB |-> amountBDesired,
          liquidity |-> ((amountADesired + amountBDesired) * pair.totalSupply)
                            \div (pair.reserve0 + pair.reserve1)]

\* A removal that always pays from a drained pair.
RouterRemoveLiquidityDrained(liquidity, amountAMin, amountBMin, answer) ==
    LET a == (liquidity * pair.reserve0) \div (pair.totalSupply * 2)
        b == (liquidity * pair.reserve1) \div (pair.totalSupply * 2)
    IN  IF answer = "revert" \/ a < amountAMin \/ b < amountBMin
        THEN [ok |-> FALSE, amountA |-> 0, amountB |-> 0]
        ELSE [ok |-> TRUE, amountA |-> a, amountB |-> b]

\* removeLiquidity: pays each token pro rata to the pair's reserves
\* (liquidity / 2 of each at the mock pair's figures), or half of that from a
\* drained pair; the router reverts when a payment is below its minimum.
RouterRemoveLiquidity(liquidity, amountAMin, amountBMin, answer) ==
    LET drain == IF answer = "drained" THEN 2 ELSE 1
        a == (liquidity * pair.reserve0) \div (pair.totalSupply * drain)
        b == (liquidity * pair.reserve1) \div (pair.totalSupply * drain)
    IN  IF answer = "revert" \/ a < amountAMin \/ b < amountBMin
        THEN [ok |-> FALSE, amountA |-> 0, amountB |-> 0]
        ELSE [ok |-> TRUE, amountA |-> a, amountB |-> b]

\* ---------------------------------------------------------------------
\* VVSYieldStrategy
\* ---------------------------------------------------------------------
savingsVault == VAULT

\* Minimum acceptable output for an input, by the slippage tolerance.
MinOutput(amount) == (amount * (BPS - slippageTolerance)) \div BPS

\* A value read from the LP tokens alone, blind to the pair's reserves.
getUserValuePrincipal(ult, user) == ult[user]

\* getUserValue: the user's share of the pair's reserves, in USDC.
getUserValue(ult, user) ==
    IF ult[user] = 0 \/ pair.totalSupply = 0 THEN 0
    ELSE (ult[user] * (pair.reserve0 + pair.reserve1)) \div pair.totalSupply

StrategyFail(err, ult, tlt, bal) ==
    [err |-> err, amount |-> 0, ult |-> ult, tlt |-> tlt, bal |-> bal]

\* A deposit that any address may call.
StrategyDepositAnyCaller(ult, tlt, bal, caller, user, amount, answer) ==
    LET halfAmount == amount \div 2
        swap == RouterSwap(halfAmount, MinOutput(halfAmount), answer)
        usdtAmount == swap.out
        add == RouterAddLiquidity(halfAmount, usdtAmount, MinOutput(halfAmount),
                                  MinOutput(usdtAmount), answer)
    IN  IF amount = 0 THEN StrategyFail("ZeroAmount", ult, tlt, bal)
        ELSE IF ~CanPay(bal, caller, amount)
             THEN StrategyFail("ERC20InsufficientBalance", ult, tlt, bal)
        ELSE IF ~swap.ok \/ ~add.ok THEN StrategyFail("RouterRevert", ult, tlt, bal)
        ELSE [ err |-> "ok",
               amount |-> add.liquidity,
               ult |-> [ult EXCEPT ![user] = @ + add.liquidity],
               tlt |-> tlt + add.liquidity,
               bal |-> ToExchange(Transfer(bal, caller, STRATEGY, amount), STRATEGY,
                                  halfAmount + add.amountA) ]

\* A deposit that credits the user with every LP token issued so far.
StrategyDepositCumulative(ult, tlt, bal, caller, user, amount, answer) ==
    LET halfAmount == amount \div 2
        swap == RouterSwap(halfAmount, MinOutput(halfAmount), answer)
        usdtAmount == swap.out
        add == RouterAddLiquidity(halfAmount, usdtAmount, MinOutput(halfAmount),
                                  MinOutput(usdtAmount), answer)
    IN  IF caller # savingsVault THEN StrategyFail("OnlyVault", ult, tlt, bal)
        ELSE IF amount = 0 THEN StrategyFail("ZeroAmount", ult, tlt, bal)
        ELSE IF ~CanPay(bal, caller, amount)
             THEN StrategyFail("ERC20InsufficientBalance", ult, tlt, bal)
        ELSE IF ~swap.ok \/ ~add.ok THEN StrategyFail("RouterRevert", ult, tlt, bal)
        ELSE [ err |-> "ok",
               amount |-> add.liquidity,
               ult |-> [ult EXCEPT ![user] = tlt + add.liquidity],
               tlt |-> tlt + add.liquidity,
               bal |-> ToExchange(Transfer(bal, caller, STRATEGY, amount), STRATEGY,
                                  halfAmount + add.amountA) ]

\* A deposit that credits the user with the amount deposited instead of the
\* LP tokens the router reported.
StrategyDepositCreditsAmount(ult, tlt, bal, caller, user, amount, answer) ==
    LET halfAmount == amount \div 2
        swap == RouterSwap(halfAmount, MinOutput(halfAmount), answer)
        usdtAmount == swap.out
        add == RouterAddLiquidity(halfAmount, usdtAmount, MinOutput(halfAmount),
                                  MinOutput(usdtAmount), answer)
    IN  IF caller # savingsVault THEN StrategyFail("OnlyVault", ult, tlt, bal)
        ELSE IF amount = 0 THEN StrategyFail("ZeroAmount", ult, tlt, bal)
        ELSE IF ~CanPay(bal, caller, amount)
             THEN StrategyFail("ERC20InsufficientBalance", ult, tlt, bal)
        ELSE IF ~swap.ok \/ ~add.ok THEN StrategyFail("RouterRevert", ult, tlt, bal)
        ELSE [ err |-> "ok",
               amount |-> add.liquidity,
               ult |-> [ult EXCEPT ![user] = @ + amount],
               tlt |-> tlt + amount,
               bal |-> ToExchange(Transfer(bal, caller, STRATEGY, amount), STRATEGY,
                                  halfAmount + add.amountA) ]

\* VVSYieldStrategy.deposit(user, amount), called by `caller`.
\* amount: the LP tokens issued.
StrategyDeposit(ult, tlt, bal, caller, user, amount, answer) ==
    LET halfAmount == amount \div 2
        swap == RouterSwap(halfAmount, MinOutput(halfAmount), answer)
        usdtAmount == swap.out
        add == RouterAddLiquidity(halfAmount, usdtAmount, MinOutput(halfAmount),
                                  MinOutput(usdtAmount), answer)
    IN  IF caller # savingsVault THEN StrategyFail("OnlyVault", ult, tlt, bal)
        ELSE IF amount = 0 THEN StrategyFail("ZeroAmount", ult, tlt, bal)
        ELSE IF ~CanPay(bal, caller, amount)
             THEN StrategyFail("ERC20InsufficientBalance", ult, tlt, bal)
        ELSE IF ~swap.ok \/ ~add.ok THEN StrategyFail("RouterRevert", ult, tlt, bal)
        ELSE [ err |-> "ok",
               amount |-> add.liquidity,
               ult |-> [ult EXCEPT ![user] = @ + add.liquidity],
               tlt |-> tlt + add.liquidity,
               bal |-> ToExchange(Transfer(bal, caller, STRATEGY, amount), STRATEGY,
                                  halfAmount + add.amountA) ]

\* A withdraw that burns the user's LP tokens and leaves the total as it is.
StrategyWithdrawKeepsTotal(ult, tlt, bal, caller, user, liquidityTokens, answer) ==
    LET rem == RouterRemoveLiquidity(liquidityTokens, 0, 0, answer)
        swap == RouterSwap(rem.amountB, MinOutput(rem.amountB), answer)
        usdcAmount == rem.amountA + swap.out
    IN  IF caller # savingsVault THEN StrategyFail("OnlyVault", ult, tlt, bal)
        ELSE IF liquidityTokens = 0 THEN StrategyFail("ZeroAmount", ult, tlt, bal)
        ELSE IF ult[user] < liquidityTokens
             THEN StrategyFail("InsufficientLiquidity", ult, tlt, bal)
        ELSE IF ~rem.ok \/ ~swap.ok THEN StrategyFail("RouterRevert", ult, tlt, bal)
        ELSE [ err |-> "ok",
               amount |-> usdcAmount,
               ult |-> [ult EXCEPT ![user] = @ - liquidityTokens],
               tlt |-> tlt,
               bal |-> Transfer(FromExchange(bal, STRATEGY, usdcAmount), STRATEGY,
                                caller, usdcAmount) ]

\* A withdraw that does not compare the request with the user's LP tokens.
StrategyWithdrawUnchecked(ult, tlt, bal, caller, user, liquidityTokens, answer) ==
    LET rem == RouterRemoveLiquidity(liquidityTokens, 0, 0, answer)
        swap == RouterSwap(rem.amountB, MinOutput(rem.amountB), answer)
        usdcAmount == rem.amountA + swap.out
    IN  IF caller # savingsVault THEN StrategyFail("OnlyVault", ult, tlt, bal)
        ELSE IF liquidityTokens = 0 THEN StrategyFail("ZeroAmount", ult, tlt, bal)
        ELSE IF ~rem.ok \/ ~swap.ok THEN StrategyFail("RouterRevert", ult, tlt, bal)
        ELSE [ err |-> "ok",
               amount |-> usdcAmount,
               ult |-> [ult EXCEPT ![user] = @ - liquidityTokens],
               tlt |-> tlt - liquidityTokens,
               bal |-> Transfer(FromExchange(bal, STRATEGY, usdcAmount), STRATEGY,
                                caller, usdcAmount) ]

\* VVSYieldStrategy.withdraw(user, liquidityTokens), called by `caller`.
\* amount: the USDC returned to the caller.
StrategyWithdraw(ult, tlt, bal, caller, user, liquidityTokens, answer) ==
    LET rem == RouterRemoveLiquidity(liquidityTokens, 0, 0, answer)
        swap == RouterSwap(rem.amountB, MinOutput(rem.amountB), answer)
        usdcAmount == rem.amountA + swap.out
    IN  IF caller # savingsVault THEN StrategyFail("OnlyVault", ult, tlt, bal)
        ELSE IF liquidityTokens = 0 THEN StrategyFail("ZeroAmount", ult, tlt, bal)
        ELSE IF ult[user] < liquidityTokens
             THEN StrategyFail("InsufficientLiquidity", ult, tlt, bal)
        ELSE IF ~rem.ok \/ ~swap.ok THEN StrategyFail("RouterRevert", ult, tlt, bal)
        ELSE [ err |-> "ok",
               amount |-> usdcAmount,
               ult |-> [ult EXCEPT ![user] = @ - liquidityTokens],
               tlt |-> tlt - liquidityTokens,
               bal |-> Transfer(FromExchange(bal, STRATEGY, usdcAmount), STRATEGY,
                                caller, usdcAmount) ]

\* ---------------------------------------------------------------------
\* SavingsVault: helpers
\* ---------------------------------------------------------------------
\* s_accounts[a]: an address that never created an account reads as the
\* zeroed struct.
Account(a) == IF a \in Users THEN s_accounts[a] ELSE EmptyAccount

\* Deposits are explored while the account's cumulative total stays small.
WithinCap(user, amount) == Account(user).totalDeposited + amount <= MaxTotal

\* A credit that forgets the cumulative total.
CreditedNoTotal(acct, amount) ==
    [acct EXCEPT !.currentBalance = @ + amount]

\* The assignments shared by deposit, depositFor and autoSave.
Credited(acct, amount) ==
    [acct EXCEPT !.totalDeposited = @ + amount, !.currentBalance = @ + amount]

\* A debit that charges the account one unit less than it pays.
DebitedShort(acct, amount) ==
    [acct EXCEPT !.totalWithdrawn = @ + amount - 1, !.currentBalance = @ - amount + 1]

\* The assignments of withdraw.
Debited(acct, amount) ==
    [acct EXCEPT !.totalWithdrawn = @ + amount, !.currentBalance = @ - amount]

\* autoSave's credit: it also stamps the time of the save.
SavedNoStamp(acct, amount, timestamp) == Credited(acct, amount)

Saved(acct, amount, timestamp) ==
    [Credited(acct, amount) EXCEPT !.lastSaveTimestamp = timestamp]

\* _depositToYield: approve the strategy, then strategy.deposit(user, amount).
DepositToYield(ult, tlt, bal, user, amount, answer) ==
    StrategyDeposit(ult, tlt, bal, VAULT, user, amount, answer)

\* The "route to yield strategy if set" tail of the three deposit paths.
RouteToYield(ult, tlt, bal, user, amount, answer) ==
    IF s_yieldStrategy # ZERO
    THEN DepositToYield(ult, tlt, bal, user, amount, answer)
    ELSE [err |-> "ok", amount |-> 0, ult |-> ult, tlt |-> tlt, bal |-> bal]

\* A redemption of the whole position whatever the shortfall.
LpToWithdrawAll(userLpTokens, usdcNeeded, userValueInStrategy) == userLpTokens

\* LP tokens _withdrawFromYield redeems for a USDC shortfall.
LpToWithdraw(userLpTokens, usdcNeeded, userValueInStrategy) ==
    IF usdcNeeded >= userValueInStrategy
    THEN userLpTokens
    ELSE (userLpTokens * usdcNeeded) \div userValueInStrategy

\* _withdrawFromYield(user, usdcNeeded).  amount: the USDC received.
WithdrawFromYield(ult, tlt, bal, user, usdcNeeded, answer) ==
    LET userLpTokens == ult[user]
        userValueInStrategy == getUserValue(ult, user)
        lpToWithdraw == LpToWithdraw(userLpTokens, usdcNeeded, userValueInStrategy)
    IN  IF userLpTokens = 0
        THEN [err |-> "ok", amount |-> 0, ult |-> ult, tlt |-> tlt, bal |-> bal]
        ELSE StrategyWithdraw(ult, tlt, bal, VAULT, user, lpToWithdraw, answer)

\* A request for the whole amount instead of the shortfall.
NeededFull(amount, vaultBalance) == amount

\* The shortfall withdraw asks the strategy for.
Needed(amount, vaultBalance) == amount - vaultBalance

\* Whether withdraw goes to the yield strategy.
NeedsYield(amount, vaultBalance) ==
    vaultBalance < amount /\ s_yieldStrategy # ZERO

\* An authorization that lets both the operator and the user through.
AuthorizedEither(trustMode, caller, user) ==
    caller = s_backendServer \/ caller = user

\* autoSave's authorization check on the account's trust mode.
Authorized(trustMode, caller, user) ==
    IF trustMode = "AUTO" THEN caller = s_backendServer ELSE caller = user

\* A rate limit that lets a save through one second early.
RateLimitedShort(lastSaveTimestamp, timestamp) ==
    lastSaveTimestamp # 0 /\ timestamp + 1 < lastSaveTimestamp + MIN_SAVE_INTERVAL

\* autoSave's rate limit: TRUE when the save comes too early.
RateLimited(lastSaveTimestamp, timestamp) ==
    lastSaveTimestamp # 0 /\ timestamp < lastSaveTimestamp + MIN_SAVE_INTERVAL

\* ---------------------------------------------------------------------
\* SavingsVault: the checks of each function, in source order
\* ---------------------------------------------------------------------
\* The checks of createAccount without the duplicate check.
CreateAccountCheckNoDuplicate(caller, weeklyGoal) ==
    IF weeklyGoal = 0 THEN "GoalNotPositive" ELSE "ok"

CreateAccountCheck(caller, weeklyGoal) ==
    IF Account(caller).isActive THEN "AccountAlreadyExists"
    ELSE IF weeklyGoal = 0 THEN "GoalNotPositive"
    ELSE "ok"

\* The checks of deposit without the pause.
DepositCheckIgnoresPause(caller, amount) ==
    IF amount < MIN_DEPOSIT THEN "InvalidAmount"
    ELSE IF ~Account(caller).isActive THEN "AccountNotActive"
    ELSE IF ~CanPay(usdcBalance, caller, amount) THEN "ERC20InsufficientBalance"
    ELSE "ok"

DepositCheck(caller, amount) ==
    IF paused THEN "EnforcedPause"
    ELSE IF amount < MIN_DEPOSIT THEN "InvalidAmount"
    ELSE IF ~Account(caller).isActive THEN "AccountNotActive"
    ELSE IF ~CanPay(usdcBalance, caller, amount) THEN "ERC20InsufficientBalance"
    ELSE "ok"

\* The checks of depositFor without the caller check.
DepositForCheckAnyCaller(caller, user, amount) ==
    IF paused THEN "EnforcedPause"
    ELSE IF amount < MIN_DEPOSIT THEN "InvalidAmount"
    ELSE IF ~Account(user).isActive THEN "AccountNotActive"
    ELSE "ok"

DepositForCheck(caller, user, amount) ==
    IF paused THEN "EnforcedPause"
    ELSE IF caller # s_backendServer THEN "UnauthorizedCaller"
    ELSE IF amount < MIN_DEPOSIT THEN "InvalidAmount"
    ELSE IF ~Account(user).isActive THEN "AccountNotActive"
    ELSE "ok"

\* The checks of autoSave with the rate limit ahead of the authorization.
AutoSaveCheckLimitFirst(caller, user, amount) ==
    IF paused THEN "EnforcedPause"
    ELSE IF ~Account(user).isActive THEN "AccountNotActive"
    ELSE IF amount = 0 \/ amount > MAX_SAVE_AMOUNT THEN "AmountExceedsLimit"
    ELSE IF RateLimited(Account(user).lastSaveTimestamp, now) THEN "SaveIntervalNotMet"
    ELSE IF ~Authorized(Account(user).trustMode, caller, user) THEN "UnauthorizedCaller"
    ELSE IF ~CanPay(usdcBalance, user, amount) THEN "ERC20InsufficientBalance"
    ELSE "ok"

AutoSaveCheck(caller, user, amount) ==
    IF paused THEN "EnforcedPause"
    ELSE IF ~Account(user).isActive THEN "AccountNotActive"
    ELSE IF amount = 0 \/ amount > MAX_SAVE_AMOUNT THEN "AmountExceedsLimit"
    ELSE IF ~Authorized(Account(user).trustMode, caller, user) THEN "UnauthorizedCaller"
    ELSE IF RateLimited(Account(user).lastSaveTimestamp, now) THEN "SaveIntervalNotMet"
    ELSE IF ~CanPay(usdcBalance, user, amount) THEN "ERC20InsufficientBalance"
    ELSE "ok"

\* The checks of withdraw without the balance check.
WithdrawCheckNoBalance(caller, amount) ==
    IF paused THEN "EnforcedPause"
    ELSE IF amount = 0 THEN "InvalidAmount"
    ELSE IF ~Account(caller).isActive THEN "AccountNotActive"
    ELSE "ok"

WithdrawCheck(caller, amount) ==
    IF paused THEN "EnforcedPause"
    ELSE IF amount = 0 THEN "InvalidAmount"
    ELSE IF ~Account(caller).isActive THEN "AccountNotActive"
    ELSE IF Account(caller).currentBalance < amount THEN "InsufficientBalance"
    ELSE "ok"

\* ---------------------------------------------------------------------
\* SavingsVault: user functions
\* ---------------------------------------------------------------------
createAccount(caller, weeklyGoal, safetyBuffer, trustMode) ==
    LET err == CreateAccountCheck(caller, weeklyGoal)
    IN  IF err # "ok" THEN Reverted(err)
        ELSE Outcome("ok",
                 [s_accounts EXCEPT ![caller] =
                    [ totalDeposited |-> 0, totalWithdrawn |-> 0,
                      currentBalance |-> 0, weeklyGoal |-> weeklyGoal,
                      safetyBuffer |-> safetyBuffer, lastSaveTimestamp |-> 0,
                      isActive |-> TRUE, trustMode |-> trustMode ]],
                 s_totalValueLocked, userLiquidityTokens, totalLiquidityTokens,
                 usdcBalance)

deposit(caller, amount, answer) ==
    LET err == DepositCheck(caller, amount)
        bal1 == Transfer(usdcBalance, caller, VAULT, amount)
        y == RouteToYield(userLiquidityTokens, totalLiquidityTokens, bal1,
                          caller, amount, answer)
    IN  IF err # "ok" THEN Reverted(err)
        ELSE IF y.err # "ok" THEN Reverted(y.err)
        ELSE Outcome("ok",
                 [s_accounts EXCEPT ![caller] = Credited(@, amount)],
                 s_totalValueLocked + amount, y.ult, y.tlt, y.bal)

depositFor(caller, user, amount, answer) ==
    LET err == DepositForCheck(caller, user, amount)
        y == RouteToYield(userLiquidityTokens, totalLiquidityTokens, usdcBalance,
                          user, amount, answer)
    IN  IF err # "ok" THEN Reverted(err)
        ELSE IF y.err # "ok" THEN Reverted(y.err)
        ELSE Outcome("ok",
                 [s_accounts EXCEPT ![user] = Credited(@, amount)],
                 s_totalValueLocked + amount, y.ult, y.tlt, y.bal)

\* An autoSave that stamps the save before the transfer and keeps the stamp
\* when the transfer fails.
autoSaveStampsFirst(caller, user, amount, answer) ==
    LET err == AutoSaveCheck(caller, user, amount)
        bal1 == Transfer(usdcBalance, user, VAULT, amount)
        y == RouteToYield(userLiquidityTokens, totalLiquidityTokens, bal1,
                          user, amount, answer)
    IN  IF err = "ERC20InsufficientBalance"
        THEN Outcome(err, [s_accounts EXCEPT ![user].lastSaveTimestamp = now],
                     s_totalValueLocked, userLiquidityTokens,
                     totalLiquidityTokens, usdcBalance)
        ELSE IF err # "ok" THEN Reverted(err)
        ELSE IF y.err # "ok" THEN Reverted(y.err)
        ELSE Outcome("ok",
                 [s_accounts EXCEPT ![user] = Saved(@, amount, now)],
                 s_totalValueLocked + amount, y.ult, y.tlt, y.bal)

autoSave(caller, user, amount, answer) ==
    LET err == AutoSaveCheck(caller, user, amount)
        bal1 == Transfer(usdcBalance, user, VAULT, amount)
        y == RouteToYield(userLiquidityTokens, totalLiquidityTokens, bal1,
                          user, amount, answer)
    IN  IF err # "ok" THEN Reverted(err)
        ELSE IF y.err # "ok" THEN Reverted(y.err)
        ELSE Outcome("ok",
                 [s_accounts EXCEPT ![user] = Saved(@, amount, now)],
                 s_totalValueLocked + amount, y.ult, y.tlt, y.bal)

withdraw(caller, amount, answer) ==
    LET err == WithdrawCheck(caller, amount)
        vaultBalance == usdcBalance[VAULT]
        y == IF NeedsYield(amount, vaultBalance)
             THEN WithdrawFromYield(userLiquidityTokens, totalLiquidityTokens,
                                    usdcBalance, caller,
                                    Needed(amount, vaultBalance), answer)
             ELSE [err |-> "ok", amount |-> 0, ult |-> userLiquidityTokens,
                   tlt |-> totalLiquidityTokens, bal |-> usdcBalance]
    IN  IF err # "ok" THEN Reverted(err)
        ELSE IF y.err # "ok" THEN Reverted(y.err)
        ELSE IF s_totalValueLocked < amount THEN Reverted("Panic")
        ELSE IF ~CanPay(y.bal, VAULT, amount) THEN Reverted("ERC20InsufficientBalance")
        ELSE Outcome("ok",
                 [s_accounts EXCEPT ![caller] = Debited(@, amount)],
                 s_totalValueLocked - amount, y.ult, y.tlt,
                 Transfer(y.bal, VAULT, caller, amount))

updateGoal(caller, newWeeklyGoal) ==
    IF ~Account(caller).isActive THEN Reverted("AccountNotActive")
    ELSE IF newWeeklyGoal = 0 THEN Reverted("GoalNotPositive")
    ELSE Outcome("ok", [s_accounts EXCEPT ![caller].weeklyGoal = newWeeklyGoal],
                 s_totalValueLocked, userLiquidityTokens, totalLiquidityTokens,
                 usdcBalance)

\* An updateTrustMode that also reopens the rate-limit window.
updateTrustModeResetsWindow(caller, newMode) ==
    IF ~Account(caller).isActive THEN Reverted("AccountNotActive")
    ELSE Outcome("ok", [s_accounts EXCEPT ![caller].trustMode = newMode,
                                          ![caller].lastSaveTimestamp = 0],
                 s_totalValueLocked, userLiquidityTokens, totalLiquidityTokens,
                 usdcBalance)

updateTrustMode(caller, newMode) ==
    IF ~Account(caller).isActive THEN Reverted("AccountNotActive")
    ELSE Outcome("ok", [s_accounts EXCEPT ![caller].trustMode = newMode],
                 s_totalValueLocked, userLiquidityTokens, totalLiquidityTokens,
                 usdcBalance)

\* ---------------------------------------------------------------------
\* SavingsVault: view functions
\* ---------------------------------------------------------------------
\* getUserTotalBalance(user): the strategy's value of the user's position
\* when a strategy is set, the ledger balance otherwise.
getUserTotalBalance(user) ==
    LET accountBalance == Account(user).currentBalance
    IN  IF s_yieldStrategy # ZERO
        THEN getUserValue(userLiquidityTokens, user)
        ELSE accountBalance

\* A canAutoSave that does not look at the clock.
canAutoSaveAlways(user) == Account(user).isActive

\* canAutoSave(user), read at block.timestamp = now.
canAutoSave(user) ==
    IF ~Account(user).isActive THEN FALSE
    ELSE IF Account(user).lastSaveTimestamp = 0 THEN TRUE
    ELSE now >= Account(user).lastSaveTimestamp + MIN_SAVE_INTERVAL

\* ---------------------------------------------------------------------
\* Backend: POST /api/save with a payment header
\* ---------------------------------------------------------------------
\* The handler asks canAutoSave(user), has the facilitator settle the payment
\* (the user's USDC moves into the vault) and then sends depositFor(user,
\* amount) from the backend wallet.  A depositFor that reverts leaves the
\* payment settled.
apiSave(user, amount, answer) ==
    LET settled == Transfer(usdcBalance, user, VAULT, amount)
        err == DepositForCheck(BACKEND, user, amount)
        y == RouteToYield(userLiquidityTokens, totalLiquidityTokens, settled,
                          user, amount, answer)
    IN  IF amount <= 0 THEN Reverted("InvalidAmount")
        ELSE IF ~canAutoSave(user) THEN Reverted("RateLimitExceeded")
        ELSE IF ~CanPay(usdcBalance, user, amount) THEN Reverted("PaymentFailed")
        ELSE IF err # "ok"
             THEN Outcome(err, s_accounts, s_totalValueLocked, userLiquidityTokens,
                          totalLiquidityTokens, settled)
        ELSE IF y.err # "ok"
             THEN Outcome(y.err, s_accounts, s_totalValueLocked,
                          userLiquidityTokens, totalLiquidityTokens, settled)
        ELSE Outcome("ok",
                 [s_accounts EXCEPT ![user] = Credited(@, amount)],
                 s_totalValueLocked + amount, y.ult, y.tlt, y.bal)

\* ---------------------------------------------------------------------
\* SavingsVault: admin functions
\* ---------------------------------------------------------------------
OnlyOwner(caller) == caller = OWNER

setYieldStrategy(caller, _yieldStrategy) ==
    IF ~OnlyOwner(caller) THEN "OwnableUnauthorizedAccount"
    ELSE IF _yieldStrategy = ZERO THEN "ZeroAddress"
    ELSE "ok"

\* A setBackendServer that any caller may use.
setBackendServerAnyCaller(caller, _backendServer) ==
    IF _backendServer = ZERO THEN "ZeroAddress" ELSE "ok"

setBackendServer(caller, _backendServer) ==
    IF ~OnlyOwner(caller) THEN "OwnableUnauthorizedAccount"
    ELSE IF _backendServer = ZERO THEN "ZeroAddress"
    ELSE "ok"

\* Pausable: pause() requires not paused, unpause() requires paused.
pause(caller) ==
    IF ~OnlyOwner(caller) THEN "OwnableUnauthorizedAccount"
    ELSE IF paused THEN "EnforcedPause"
    ELSE "ok"

unpause(caller) ==
    IF ~OnlyOwner(caller) THEN "OwnableUnauthorizedAccount"
    ELSE IF ~paused THEN "ExpectedPause"
    ELSE "ok"

\* ---------------------------------------------------------------------
\* Actions: one per transaction
\* ---------------------------------------------------------------------
CreateAccount(caller, weeklyGoal, safetyBuffer, trustMode) ==
    Apply(createAccount(caller, weeklyGoal, safetyBuffer, trustMode))

Deposit(caller, amount, answer) ==
    /\ WithinCap(caller, amount)
    /\ Apply(deposit(caller, amount, answer))

DepositFor(caller, user, amount, answer) ==
    /\ WithinCap(user, amount)
    /\ Apply(depositFor(caller, user, amount, answer))

AutoSave(caller, user, amount, answer) ==
    /\ amount <= MAX_SAVE_AMOUNT => WithinCap(user, amount)
    /\ Apply(autoSave(caller, user, amount, answer))

Withdraw(caller, amount, answer) ==
    Apply(withdraw(caller, amount, answer))

UpdateGoal(caller, newWeeklyGoal) ==
    Apply(updateGoal(caller, newWeeklyGoal))

UpdateTrustMode(caller, newMode) ==
    Apply(updateTrustMode(caller, newMode))

SetYieldStrategy(caller, _yieldStrategy) ==
    LET err == setYieldStrategy(caller, _yieldStrategy)
    IN  /\ s_yieldStrategy' = IF err = "ok" THEN _yieldStrategy ELSE s_yieldStrategy
        /\ UNCHANGED << ledgerVars, s_backendServer, paused, pair, now, strategyCalls, callVars, backendVars >>

SetBackendServer(caller, _backendServer) ==
    LET err == setBackendServer(caller, _backendServer)
    IN  /\ s_backendServer' = IF err = "ok" THEN _backendServer ELSE s_backendServer
        /\ UNCHANGED << ledgerVars, s_yieldStrategy, paused, pair, now, strategyCalls, callVars, backendVars >>

Pause(caller) ==
    /\ paused' = IF pause(caller) = "ok" THEN TRUE ELSE paused
    /\ UNCHANGED << ledgerVars, s_yieldStrategy, s_backendServer, pair, now,
                    strategyCalls, callVars, backendVars >>

Unpause(caller) ==
    /\ paused' = IF unpause(caller) = "ok" THEN FALSE ELSE paused
    /\ UNCHANGED << ledgerVars, s_yieldStrategy, s_backendServer, pair, now,
                    strategyCalls, callVars, backendVars >>

\* ---------------------------------------------------------------------
\* Environment
\* ---------------------------------------------------------------------
\* Time passes between blocks.
AdvanceTime(d) ==
    /\ now + d <= MaxTime
    /\ now' = now + d
    /\ UNCHANGED << ledgerVars, adminVars, pair, strategyCalls, callVars, backendVars >>

\* Trading fees accrue in the pair: its reserves grow, its LP supply does not.
\* (The pair is read only once a strategy is configured.)
AccrueFees ==
    /\ s_yieldStrategy # ZERO
    /\ \E p \in PairStates :
          /\ p.reserve0 > pair.reserve0
          /\ pair' = p
    /\ UNCHANGED << ledgerVars, adminVars, now, strategyCalls, callVars, backendVars >>

\* The x402 facilitator settles a payment authorization: the user's USDC moves
\* into the vault (payTo is the vault address).
SettlePayment(user, amount) ==
    /\ amount > 0
    /\ CanPay(usdcBalance, user, amount)
    /\ usdcBalance' = Transfer(usdcBalance, user, VAULT, amount)
    /\ UNCHANGED << s_accounts, s_totalValueLocked, userLiquidityTokens,
                    totalLiquidityTokens, adminVars, pair, now,
                    strategyCalls, callVars, backendVars >>

\* A POST /api/save request for `user` carrying a payment header.
ApiSave(user, amount, answer) ==
    /\ WithinCap(user, amount)
    /\ Apply(apiSave(user, amount, answer))

\* The exchange's answer matters only to a call that reaches the strategy.
Answers == IF s_yieldStrategy = ZERO THEN {"exact"} ELSE ExchangeAnswers

Next ==
    \/ \E c \in Users : \E g \in GoalInputs, b \in BufferInputs, m \in ModesOf(c) :
          CreateAccount(c, g, b, m)
    \/ \E c \in Callers : \E a \in AmountsOf(c), x \in Answers : Deposit(c, a, x)
    \/ \E c \in Callers, a \in Amounts, x \in Answers : DepositFor(c, Primary, a, x)
    \/ \E c \in Callers, a \in SaveAmounts, x \in Answers : AutoSave(c, Primary, a, x)
    \/ \E c \in Callers : \E a \in AmountsOf(c), x \in Answers : Withdraw(c, a, x)
    \/ \E c \in Callers, g \in GoalInputs : UpdateGoal(c, g)
    \/ \E c \in Callers : \E m \in ModesOf(c) : UpdateTrustMode(c, m)
    \/ \E c \in Callers, s \in StrategyInputs : SetYieldStrategy(c, s)
    \/ \E c \in Callers, s \in ServerInputs : SetBackendServer(c, s)
    \/ \E c \in Callers : Pause(c)
    \/ \E c \in Callers : Unpause(c)
    \/ \E d \in TimeSteps : AdvanceTime(d)
    \/ AccrueFees
    \/ \E a \in SettleAmounts : SettlePayment(Primary, a)
    \/ \E a \in SettleAmounts, x \in Answers : ApiSave(Primary, a, x)

Spec == Init /\ [][Next]_vars

\* ---------------------------------------------------------------------
\* The vault under a change of operator: the owner replaces the backend
\* server while one account is credited and auto-saved
\* ---------------------------------------------------------------------
\* A second backend wallet, which the owner may configure in place of the
\* first.
NEW_BACKEND == "backend2"

AdminCallers == Callers \cup {NEW_BACKEND}

AdminServerInputs == ServerInputs \cup {NEW_BACKEND}

NextAdmin ==
    \/ \E c \in AdminCallers, s \in AdminServerInputs : SetBackendServer(c, s)
    \/ \E c \in AdminCallers, s \in StrategyInputs : SetYieldStrategy(c, s)
    \/ \E m \in TrustModes : CreateAccount(Primary, 1, 0, m)
    \/ \E m \in TrustModes : UpdateTrustMode(Primary, m)
    \/ \E c \in AdminCallers : DepositFor(c, Primary, MIN_DEPOSIT, "exact")
    \/ \E c \in AdminCallers : AutoSave(c, Primary, 1, "exact")
    \/ \E d \in TimeSteps : AdvanceTime(d)

SpecAdmin == Init /\ [][NextAdmin]_vars

\* ---------------------------------------------------------------------
\* One transaction, call by call: every external call (USDC, the router, the
\* strategy) may call back into the vault or the strategy before it returns
\* ---------------------------------------------------------------------
\* A guard that lets every call in.
nonReentrantOff(contract) == "ok"

\* ReentrancyGuard.nonReentrant of `contract`.
nonReentrant(contract) ==
    IF entered[contract] THEN "ReentrancyGuardReentrantCall" ELSE "ok"

GuardedOps == {"deposit", "depositFor", "autoSave", "withdraw"}

\* The modifiers and checks a call of a guarded vault function passes before
\* its body runs: nonReentrant first, then whenNotPaused and the reverts.
VaultEntry(op, caller, user, amount) ==
    IF nonReentrant("vault") # "ok" THEN nonReentrant("vault")
    ELSE IF op = "deposit" THEN DepositCheck(caller, amount)
    ELSE IF op = "depositFor" THEN DepositForCheck(caller, user, amount)
    ELSE IF op = "autoSave" THEN AutoSaveCheck(caller, user, amount)
    ELSE WithdrawCheck(caller, amount)

\* The modifiers of the strategy's deposit and withdraw: onlyVault, then
\* nonReentrant.
StrategyEntry(caller) ==
    IF caller # savingsVault THEN "OnlyVault" ELSE nonReentrant("strategy")

\* The transaction the call starts runs to its end without a revert.
Completes(op, caller, user, amount) ==
    IF op = "deposit" THEN deposit(caller, amount, "exact").err = "ok"
    ELSE IF op = "depositFor" THEN depositFor(caller, user, amount, "exact").err = "ok"
    ELSE IF op = "autoSave" THEN autoSave(caller, user, amount, "exact").err = "ok"
    ELSE withdraw(caller, amount, "exact").err = "ok"

\* A call that waits on the external call `pos`; `heldA` and `heldB` are its
\* local variables.
Frame(contract, op, caller, user, amount, pos, heldA, heldB) ==
    [ contract |-> contract, op |-> op, caller |-> caller, user |-> user,
      amount |-> amount, pos |-> pos, heldA |-> heldA, heldB |-> heldB ]

Top == stack[Len(stack)]

Pop(n) == SubSeq(stack, 1, Len(stack) - n)

\* The frame below the innermost one moves to `pos`.
Resume(pos) ==
    Append(Pop(2), [stack[Len(stack) - 1] EXCEPT !.pos = pos])

\* The vault calls strategy.deposit(user, amount) or strategy.withdraw(user,
\* liquidityTokens): the strategy's frame, waiting on its first external call.
StrategyFrame(op, user, amount) ==
    Frame("strategy", op, VAULT, user, amount,
          IF op = "deposit" THEN "safeTransferFrom" ELSE "removeLiquidity", 0, 0)

\* A guarded vault function is called, by a transaction of its own or from
\* inside an external call that has not returned, and runs up to its first
\* external call.
VaultCall(op, caller, user, amount) ==
    LET entersStrategy ==
            /\ op = "withdraw"
            /\ NeedsYield(amount, usdcBalance[VAULT])
            /\ userLiquidityTokens[caller] > 0
        lpToWithdraw ==
            LpToWithdraw(userLiquidityTokens[caller],
                         Needed(amount, usdcBalance[VAULT]),
                         getUserValue(userLiquidityTokens, caller))
        first == IF op = "depositFor" THEN "approve"
                 ELSE IF op = "withdraw" THEN "safeTransfer"
                 ELSE "safeTransferFrom"
        frame == Frame("vault", op, caller, user, amount, first, 0, 0)
    IN  /\ Len(stack) + 2 <= MaxDepth
        /\ VaultEntry(op, caller, user, amount) = "ok"
        /\ Completes(op, caller, user, amount)
        /\ op # "withdraw" => WithinCap(user, amount)
        /\ IF entersStrategy
           THEN /\ StrategyEntry(VAULT) = "ok"
                /\ stack' = stack \o << [frame EXCEPT !.pos = "strategy"],
                                        StrategyFrame("withdraw", caller, lpToWithdraw) >>
                /\ entered' = [vault |-> TRUE, strategy |-> TRUE]
                /\ UNCHANGED << ledgerVars >>
           ELSE IF op = "depositFor" /\ s_yieldStrategy = ZERO
           THEN /\ s_accounts' = [s_accounts EXCEPT ![user] = Credited(@, amount)]
                /\ s_totalValueLocked' = s_totalValueLocked + amount
                /\ UNCHANGED << userLiquidityTokens, totalLiquidityTokens,
                                usdcBalance, callVars >>
           ELSE /\ stack' = Append(stack, frame)
                /\ entered' = [entered EXCEPT !.vault = TRUE]
                /\ s_accounts' =
                      IF op = "depositFor"
                      THEN [s_accounts EXCEPT ![user] = Credited(@, amount)]
                      ELSE IF op = "withdraw"
                      THEN [s_accounts EXCEPT ![caller] = Debited(@, amount)]
                      ELSE s_accounts
                /\ s_totalValueLocked' =
                      IF op = "depositFor" THEN s_totalValueLocked + amount
                      ELSE IF op = "withdraw" THEN s_totalValueLocked - amount
                      ELSE s_totalValueLocked
                /\ UNCHANGED << userLiquidityTokens, totalLiquidityTokens,
                                usdcBalance >>
        /\ UNCHANGED << adminVars, pair, now, strategyCalls, backendVars >>

\* The external call the innermost vault frame waits on returns, and the
\* function runs up to its next external call or to its end.
VaultReturn ==
    LET f == Top
        credited ==
            [s_accounts EXCEPT ![f.user] =
                IF f.op = "autoSave" THEN Saved(@, f.amount, now)
                ELSE Credited(@, f.amount)]
    IN  /\ stack # << >>
        /\ f.contract = "vault"
        /\ f.pos # "strategy"
        /\ IF f.pos = "safeTransferFrom"
           THEN /\ usdcBalance' = Transfer(usdcBalance, f.user, VAULT, f.amount)
                /\ s_accounts' = credited
                /\ s_totalValueLocked' = s_totalValueLocked + f.amount
                /\ IF s_yieldStrategy # ZERO
                   THEN /\ stack' = Append(Pop(1), [f EXCEPT !.pos = "approve"])
                        /\ UNCHANGED entered
                   ELSE /\ stack' = Pop(1)
                        /\ entered' = [entered EXCEPT !.vault = FALSE]
                /\ UNCHANGED << userLiquidityTokens, totalLiquidityTokens >>
           ELSE IF f.pos = "approve"
           THEN /\ StrategyEntry(VAULT) = "ok"
                /\ stack' = Pop(1) \o << [f EXCEPT !.pos = "strategy"],
                                         StrategyFrame("deposit", f.user, f.amount) >>
                /\ entered' = [entered EXCEPT !.strategy = TRUE]
                /\ UNCHANGED << ledgerVars >>
           ELSE /\ usdcBalance' = Transfer(usdcBalance, VAULT, f.caller, f.amount)
                /\ stack' = Pop(1)
                /\ entered' = [entered EXCEPT !.vault = FALSE]
                /\ UNCHANGED << s_accounts, s_totalValueLocked, userLiquidityTokens,
                                totalLiquidityTokens >>
        /\ UNCHANGED << adminVars, pair, now, strategyCalls, backendVars >>

\* The external call the strategy's frame waits on returns.  When the
\* strategy's function ends, the vault function that called it goes on: a
\* deposit path ends too, withdraw updates the account and transfers out.
StrategyReturn ==
    LET f == Top
        halfAmount == f.amount \div 2
        swapIn == RouterSwap(halfAmount, MinOutput(halfAmount), "exact")
        add == RouterAddLiquidity(halfAmount, f.heldB, MinOutput(halfAmount),
                                  MinOutput(f.heldB), "exact")
        rem == RouterRemoveLiquidity(f.amount, 0, 0, "exact")
        swapOut == RouterSwap(f.heldB, MinOutput(f.heldB), "exact")
        below == stack[Len(stack) - 1]
    IN  /\ stack # << >>
        /\ f.contract = "strategy"
        /\ IF f.op = "deposit" /\ f.pos = "safeTransferFrom"
           THEN /\ usdcBalance' = Transfer(usdcBalance, f.caller, STRATEGY, f.amount)
                /\ stack' = Append(Pop(1), [f EXCEPT !.pos = "swap"])
                /\ UNCHANGED << s_accounts, s_totalValueLocked, userLiquidityTokens,
                                totalLiquidityTokens, entered >>
           ELSE IF f.op = "deposit" /\ f.pos = "swap"
           THEN /\ usdcBalance' = ToExchange(usdcBalance, STRATEGY, halfAmount)
                /\ stack' = Append(Pop(1), [f EXCEPT !.pos = "addLiquidity",
                                                     !.heldB = swapIn.out])
                /\ UNCHANGED << s_accounts, s_totalValueLocked, userLiquidityTokens,
                                totalLiquidityTokens, entered >>
           ELSE IF f.op = "deposit"
           THEN /\ usdcBalance' = ToExchange(usdcBalance, STRATEGY, add.amountA)
                /\ userLiquidityTokens' =
                      [userLiquidityTokens EXCEPT ![f.user] = @ + add.liquidity]
                /\ totalLiquidityTokens' = totalLiquidityTokens + add.liquidity
                /\ stack' = Pop(2)
                /\ entered' = [vault |-> FALSE, strategy |-> FALSE]
                /\ UNCHANGED << s_accounts, s_totalValueLocked >>
           ELSE IF f.pos = "removeLiquidity"
           THEN /\ usdcBalance' = FromExchange(usdcBalance, STRATEGY, rem.amountA)
                /\ stack' = Append(Pop(1), [f EXCEPT !.pos = "swap",
                                                     !.heldA = rem.amountA,
                                                     !.heldB = rem.amountB])
                /\ UNCHANGED << s_accounts, s_totalValueLocked, userLiquidityTokens,
                                totalLiquidityTokens, entered >>
           ELSE IF f.pos = "swap"
           THEN /\ usdcBalance' = FromExchange(usdcBalance, STRATEGY, swapOut.out)
                /\ userLiquidityTokens' =
                      [userLiquidityTokens EXCEPT ![f.user] = @ - f.amount]
                /\ totalLiquidityTokens' = totalLiquidityTokens - f.amount
                /\ stack' = Append(Pop(1), [f EXCEPT !.pos = "safeTransfer",
                                                     !.heldA = f.heldA + swapOut.out])
                /\ UNCHANGED << s_accounts, s_totalValueLocked, entered >>
           ELSE /\ usdcBalance' = Transfer(usdcBalance, STRATEGY, f.caller, f.heldA)
                /\ s_accounts' =
                      [s_accounts EXCEPT ![below.caller] = Debited(@, below.amount)]
                /\ s_totalValueLocked' = s_totalValueLocked - below.amount
                /\ stack' = Resume("safeTransfer")
                /\ entered' = [entered EXCEPT !.strategy = FALSE]
                /\ UNCHANGED << userLiquidityTokens, totalLiquidityTokens >>
        /\ UNCHANGED << adminVars, pair, now, strategyCalls, backendVars >>

\* The owner configures the vault in a transaction of its own.
Configure ==
    /\ stack = << >>
    /\ \/ SetYieldStrategy(OWNER, STRATEGY)
       \/ SetBackendServer(OWNER, BACKEND)

\* Amounts the calls of one transaction are explored with.
CallAmounts == {1, MIN_DEPOSIT}

NextReentry ==
    \/ \E c \in Users : \E m \in ModesOf(c) : CreateAccount(c, 1, 0, m)
    \/ \E m \in TrustModes : UpdateTrustMode(Primary, m)
    \/ \E g \in {1, 2} : UpdateGoal(Primary, g)
    \/ Configure
    \/ \E op \in GuardedOps, c \in Callers, a \in CallAmounts :
          VaultCall(op, c, IF op \in {"deposit", "withdraw"} THEN c ELSE Primary, a)
    \/ VaultReturn
    \/ StrategyReturn

SpecReentry == Init /\ [][NextReentry]_vars

\* ---------------------------------------------------------------------
\* Backend: the POST /api/save handler, await by await, with two requests in
\* flight
\* ---------------------------------------------------------------------
\* USDC the user holds when the backend is explored: two payments.
BackendFunds == 4

\* Amounts a request body carries: invalid, below MIN_DEPOSIT, MIN_DEPOSIT.
BodyAmounts == {0, 1, MIN_DEPOSIT}

\* Validation of the request body.
ValidateBody(amount) == IF amount <= 0 THEN "Invalid amount" ELSE "ok"

\* A gate that never looks a payment id up in pendingPayments.
PaymentGateNoLookup(canSave, header, paymentId) ==
    IF ~canSave THEN "Rate limit exceeded"
    ELSE IF header = "none" THEN "payment_required"
    ELSE "ok"

\* What the handler decides between the canAutoSave answer and the call of
\* verifyAndSettle: 429, the 402 challenge, 'Payment already processed', or
\* go on.
PaymentGate(canSave, header, paymentId) ==
    IF ~canSave THEN "Rate limit exceeded"
    ELSE IF header = "none" THEN "payment_required"
    ELSE IF pendingPayments[paymentId] THEN "Payment already processed"
    ELSE "ok"

\* A verification that accepts every header.
verifyPaymentAlways(header) == TRUE

\* facilitator.verifyPayment: isValid for an authorization the user signed.
verifyPayment(header) == header \in SignedHeaders

\* A settlement that executes an authorization again.
settlePaymentReplays(header, amount) ==
    CanPay(usdcBalance, Primary, amount)

\* facilitator.settlePayment: transferWithAuthorization moves the USDC once
\* per authorization nonce; 'payment.settled' or a failure.
settlePayment(header, amount) ==
    /\ header \notin usedNonces
    /\ CanPay(usdcBalance, Primary, amount)

Respond(r, response) ==
    [requests EXCEPT ![r].pc = "done", ![r].response = response]

Count(header, field) ==
    [calls EXCEPT ![header][field] = @ + 1]

\* A request arrives and its body is validated; the handler then awaits
\* canAutoSave.
Post(r, paymentId, header, amount) ==
    /\ requests[r].pc = "idle"
    /\ requests' =
          [requests EXCEPT ![r] =
              [ pc |-> IF ValidateBody(amount) = "ok" THEN "canAutoSave" ELSE "done",
                paymentId |-> paymentId, header |-> header, amount |-> amount,
                late |-> pendingPayments[paymentId],
                response |-> IF ValidateBody(amount) = "ok" THEN "none"
                             ELSE ValidateBody(amount) ]]
    /\ UNCHANGED << ledgerVars, adminVars, pair, now, strategyCalls, callVars,
                    pendingPayments, usedNonces, calls >>

\* canAutoSave answers (false when the call fails); the handler runs up to
\* the await of verifyAndSettle.
RateCheck(r, rpcOk) ==
    LET q == requests[r]
        gate == PaymentGate(rpcOk /\ canAutoSave(Primary), q.header, q.paymentId)
    IN  /\ q.pc = "canAutoSave"
        /\ requests' = IF gate = "ok" THEN [requests EXCEPT ![r].pc = "verify"]
                       ELSE Respond(r, gate)
        /\ UNCHANGED << ledgerVars, adminVars, pair, now, strategyCalls, callVars,
                        pendingPayments, usedNonces, calls >>

\* verifyAndSettle, step 1: the facilitator verifies the signature.
Verify(r, up) ==
    LET q == requests[r]
    IN  /\ q.pc = "verify"
        /\ calls' = Count(q.header, "verify")
        /\ requests' = IF up /\ verifyPayment(q.header)
                       THEN [requests EXCEPT ![r].pc = "settle"]
                       ELSE Respond(r, "verify_failed")
        /\ UNCHANGED << ledgerVars, adminVars, pair, now, strategyCalls, callVars,
                        pendingPayments, usedNonces >>

\* verifyAndSettle, step 2: the facilitator settles on chain.  On
\* 'payment.settled' the handler marks the payment settled and awaits
\* depositFor.
Settle(r, up) ==
    LET q == requests[r]
        settled == up /\ settlePayment(q.header, q.amount)
    IN  /\ q.pc = "settle"
        /\ calls' = IF settled
                    THEN [calls EXCEPT ![q.header].settle = @ + 1,
                                       ![q.header].settled = @ + 1]
                    ELSE Count(q.header, "settle")
        /\ IF settled
           THEN /\ usdcBalance' = Transfer(usdcBalance, Primary, VAULT, q.amount)
                /\ usedNonces' = usedNonces \cup {q.header}
                /\ pendingPayments' = [pendingPayments EXCEPT ![q.paymentId] = TRUE]
                /\ requests' = [requests EXCEPT ![r].pc = "depositFor"]
           ELSE /\ requests' = Respond(r, "settle_failed")
                /\ UNCHANGED << usdcBalance, usedNonces, pendingPayments >>
        /\ UNCHANGED << s_accounts, s_totalValueLocked, userLiquidityTokens,
                        totalLiquidityTokens, adminVars, pair, now, strategyCalls,
                        callVars >>

\* The backend wallet's depositFor transaction executes; a revert is caught
\* and answered with status 500.
Credit(r) ==
    LET q == requests[r]
        o == depositFor(BACKEND, Primary, q.amount, "exact")
    IN  /\ q.pc = "depositFor"
        /\ calls' = Count(q.header, "depositFor")
        /\ s_accounts' = o.accounts
        /\ s_totalValueLocked' = o.tvl
        /\ userLiquidityTokens' = o.ult
        /\ totalLiquidityTokens' = o.tlt
        /\ usdcBalance' = o.bal
        /\ requests' = Respond(r, IF o.err = "ok" THEN "ok" ELSE "deposit_failed")
        /\ UNCHANGED << adminVars, pair, now, strategyCalls, callVars,
                        pendingPayments, usedNonces >>

\* The user holds enough USDC for two payments.
InitBackend ==
    /\ s_accounts = [u \in Users |-> EmptyAccount]
    /\ s_totalValueLocked = 0
    /\ s_yieldStrategy = ZERO
    /\ s_backendServer = ZERO
    /\ paused = FALSE
    /\ userLiquidityTokens = [u \in Users |-> 0]
    /\ totalLiquidityTokens = 0
    /\ usdcBalance = [h \in Holders |-> IF h = Primary THEN BackendFunds ELSE 0]
    /\ pair = MockPair
    /\ now = StartTime
    /\ strategyCalls = 0
    /\ stack = << >>
    /\ entered = [vault |-> FALSE, strategy |-> FALSE]
    /\ BackendStarts

NextBackend ==
    \/ CreateAccount(Primary, 1, 0, "AUTO")
    \/ SetBackendServer(OWNER, BACKEND)
    \/ Pause(OWNER)
    \/ Unpause(OWNER)
    \/ \E r \in Requests, p \in PaymentIds, h \in Headers, a \in BodyAmounts :
          Post(r, p, h, a)
    \/ \E r \in Requests, rpcOk \in BOOLEAN : RateCheck(r, rpcOk)
    \/ \E r \in Requests, up \in BOOLEAN : Verify(r, up)
    \/ \E r \in Requests, up \in BOOLEAN : Settle(r, up)
    \/ \E r \in Requests : Credit(r)

SpecBackend == InitBackend /\ [][NextBackend]_vars

\* ---------------------------------------------------------------------
\* The strategy on its own: the vault's address calls deposit and withdraw
\* directly, as do other addresses, with larger amounts
\* ---------------------------------------------------------------------
StrategyCallers == {VAULT, Primary, OWNER}

\* Amounts passed to the strategy's deposit: zero, too small to split, odd,
\* and large enough for the slippage tolerance to exceed the rounding.
StrategyAmounts == {0, 1, 3, 1000, 2000}

\* LP tokens passed to the strategy's withdraw: none, half of the user's, all
\* of the user's, and one more than the user has.
LiquidityInputs(user) ==
    { 0, userLiquidityTokens[user] \div 2, userLiquidityTokens[user],
      userLiquidityTokens[user] + 1 }

\* The vault is deployed with a strategy configured and holds idle USDC.
InitStrategy ==
    /\ s_accounts = [u \in Users |-> EmptyAccount]
    /\ s_totalValueLocked = 0
    /\ s_yieldStrategy = STRATEGY
    /\ s_backendServer = ZERO
    /\ paused = FALSE
    /\ userLiquidityTokens = [u \in Users |-> 0]
    /\ totalLiquidityTokens = 0
    /\ usdcBalance = [h \in Holders |-> IF h = VAULT THEN StrategyFunds ELSE 0]
    /\ pair = MockPair
    /\ now = StartTime
    /\ strategyCalls = 0
    /\ stack = << >>
    /\ entered = [vault |-> FALSE, strategy |-> FALSE]
    /\ BackendStarts

\* Commit the outcome of a call to the strategy; a reverted call changes
\* nothing.
ApplyStrategy(r) ==
    /\ strategyCalls < MaxCalls
    /\ userLiquidityTokens' = r.ult
    /\ totalLiquidityTokens' = r.tlt
    /\ usdcBalance' = r.bal
    /\ strategyCalls' = IF r.err = "ok" THEN strategyCalls + 1 ELSE strategyCalls
    /\ UNCHANGED << s_accounts, s_totalValueLocked, adminVars, pair, now,
                    callVars, backendVars >>

StrategyDepositCall(caller, user, amount, answer) ==
    ApplyStrategy(StrategyDeposit(userLiquidityTokens, totalLiquidityTokens,
                                  usdcBalance, caller, user, amount, answer))

StrategyWithdrawCall(caller, user, liquidityTokens, answer) ==
    ApplyStrategy(StrategyWithdraw(userLiquidityTokens, totalLiquidityTokens,
                                   usdcBalance, caller, user, liquidityTokens,
                                   answer))

NextStrategy ==
    \/ \E c \in StrategyCallers, u \in Users, a \in StrategyAmounts,
          x \in StrategyAnswers : StrategyDepositCall(c, u, a, x)
    \/ \E c \in StrategyCallers, u \in Users, x \in StrategyAnswers :
          \E l \in LiquidityInputs(u) : StrategyWithdrawCall(c, u, l, x)
    \/ AccrueFees

SpecStrategy == InitStrategy /\ [][NextStrategy]_vars

\* ---------------------------------------------------------------------
\* Properties
\* ---------------------------------------------------------------------
\* Every amount a call can carry that matters to an account of the model.
AllAmounts == 0 .. (MaxTotal + 1)

\* The sum of f over the users.
RECURSIVE SumOver(_, _)
SumOver(f, S) ==
    IF S = {} THEN 0
    ELSE LET u == CHOOSE v \in S : TRUE IN f[u] + SumOver(f, S \ {u})

\* C1: for every account, after any sequence of createAccount, deposit,
\* depositFor, autoSave and withdraw calls, whether they succeed or fail,
\* currentBalance = totalDeposited - totalWithdrawn.
Conservation ==
    \A u \in Users :
        s_accounts[u].currentBalance =
            s_accounts[u].totalDeposited - s_accounts[u].totalWithdrawn

\* An account that has been credited, has saved and has withdrawn, and still
\* holds a balance.
ConservationWitness ==
    /\ s_accounts[Primary].isActive
    /\ s_accounts[Primary].lastSaveTimestamp # 0
    /\ s_accounts[Primary].totalDeposited = MaxTotal
    /\ s_accounts[Primary].totalWithdrawn > 0
    /\ s_accounts[Primary].currentBalance > 0

\* C2: currentBalance never goes negative.  A withdraw of more than the
\* caller's currentBalance never succeeds, whatever the exchange answers; it
\* pays nothing and leaves accounts, totalValueLocked, share units and token
\* balances as they were (the amount is not clamped to the balance); and the
\* error is InsufficientBalance whenever the call reaches withdraw's own
\* checks (the vault is not paused and the caller has an active account).
NonNegativity ==
    /\ \A u \in Users : s_accounts[u].currentBalance >= 0
    /\ \A c \in Callers, a \in AllAmounts, x \in ExchangeAnswers :
          a > Account(c).currentBalance =>
            LET o == withdraw(c, a, x)
            IN  /\ o.err # "ok"
                /\ o = Reverted(o.err)
                /\ (~paused /\ Account(c).isActive) => o.err = "InsufficientBalance"

\* An account with a balance, in a vault that holds more than that balance:
\* the withdrawal of one unit more than the balance is refused.
NonNegativityWitness ==
    /\ ~paused
    /\ s_accounts[Primary].isActive
    /\ s_accounts[Primary].currentBalance > 0
    /\ s_accounts[Primary].totalWithdrawn > 0
    /\ usdcBalance[VAULT] > s_accounts[Primary].currentBalance
    /\ withdraw(Primary, s_accounts[Primary].currentBalance + 1, "exact").err
          = "InsufficientBalance"

\* The sum of all accounts' currentBalance.
TotalBalances ==
    SumOver([u \in Users |-> s_accounts[u].currentBalance], Users)

\* The USDC value of the pool position the strategy holds: its LP tokens'
\* share of the pair's reserves.
PoolPositionValue ==
    (totalLiquidityTokens * (pair.reserve0 + pair.reserve1)) \div pair.totalSupply

\* The custodied value: the vault's idle USDC plus the strategy's position.
CustodiedValue == usdcBalance[VAULT] + PoolPositionValue

\* C3: after any sequence of deposits, credited deposits, auto-saves and
\* withdrawals by any users, the sum of all accounts' currentBalance never
\* exceeds the custodied value (the vault's idle USDC plus the USDC value of
\* the strategy's pool position).
Solvency == TotalBalances <= CustodiedValue

\* The same, for a vault in which no credited deposit ever happened (no
\* backend operator was ever set): direct deposits alone break it.
SolvencyOfDirectDeposits == s_backendServer = ZERO => Solvency

\* Amounts autoSave accepts.
ValidSaveAmounts == 1 .. (MaxTotal + 1)

\* C4: the authorization check of autoSave(user, amount) passes iff the
\* account is in AUTO mode and the caller is the backend operator, or it is in
\* MANUAL mode and the caller is the user: a call that reaches the check (vault
\* not paused, active account, amount within limits) fails with
\* UnauthorizedCaller exactly in the other cases, and no call of an
\* unauthorized caller ever succeeds.  So the user cannot auto-save their own
\* AUTO-mode account and the operator cannot auto-save a MANUAL-mode account.
Authorization ==
    \A u \in Users, c \in Callers, a \in ValidSaveAmounts, x \in ExchangeAnswers :
        LET mode == s_accounts[u].trustMode
            passes == \/ (mode = "AUTO" /\ c = s_backendServer)
                      \/ (mode = "MANUAL" /\ c = u)
            o == autoSave(c, u, a, x)
        IN  /\ (~paused /\ s_accounts[u].isActive) =>
                  (o.err = "UnauthorizedCaller" <=> ~passes)
            /\ ~passes => o.err # "ok"
            /\ (mode = "AUTO" /\ c = u) => o.err # "ok"
            /\ (mode = "MANUAL" /\ c = s_backendServer) => o.err # "ok"

\* An AUTO-mode account that has saved before and a MANUAL-mode account: the
\* operator's save of the first and the user's save of the second pass, the
\* user's and the owner's save of the first and the operator's save of the
\* second fail with UnauthorizedCaller.
AuthorizationWitness ==
    /\ ~paused
    /\ s_backendServer = BACKEND
    /\ s_accounts["alice"].isActive /\ s_accounts["alice"].trustMode = "AUTO"
    /\ s_accounts["alice"].lastSaveTimestamp # 0
    /\ s_accounts["bob"].isActive /\ s_accounts["bob"].trustMode = "MANUAL"
    /\ autoSave(BACKEND, "alice", 1, "exact").err = "ok"
    /\ autoSave("alice", "alice", 1, "exact").err = "UnauthorizedCaller"
    /\ autoSave(OWNER, "alice", 1, "exact").err = "UnauthorizedCaller"
    /\ autoSave("bob", "bob", 1, "exact").err = "ok"
    /\ autoSave(BACKEND, "bob", 1, "exact").err = "UnauthorizedCaller"

\* An autoSave(user, amount) by `caller` that is valid but for the rate limit:
\* vault not paused, active account, amount within limits, authorized caller,
\* and the user's wallet holds the amount.
OtherwiseValid(caller, user, amount) ==
    /\ ~paused
    /\ s_accounts[user].isActive
    /\ amount \in ValidSaveAmounts
    /\ \/ (s_accounts[user].trustMode = "AUTO" /\ caller = s_backendServer)
       \/ (s_accounts[user].trustMode = "MANUAL" /\ caller = user)
    /\ usdcBalance[user] >= amount

\* In every state: with lastSaveTimestamp = T # 0, an otherwise valid autoSave
\* fails with SaveIntervalNotMet while now < T + MIN_SAVE_INTERVAL, and from
\* T + MIN_SAVE_INTERVAL on it never fails with SaveIntervalNotMet and
\* succeeds when the exchange does.
RateLimitNow ==
    \A u \in Users, c \in Callers, a \in ValidSaveAmounts :
        LET T == s_accounts[u].lastSaveTimestamp
        IN  (T # 0 /\ OtherwiseValid(c, u, a)) =>
              /\ now <= T + MIN_SAVE_INTERVAL - 1 =>
                    \A x \in ExchangeAnswers :
                        /\ autoSave(c, u, a, x).err = "SaveIntervalNotMet"
                        /\ autoSave(c, u, a, x) = Reverted("SaveIntervalNotMet")
              /\ now >= T + MIN_SAVE_INTERVAL =>
                    /\ autoSave(c, u, a, "exact").err = "ok"
                    /\ \A x \in ExchangeAnswers :
                          autoSave(c, u, a, x).err # "SaveIntervalNotMet"

\* In every step: a lastSaveTimestamp that is not zero moves only to a time at
\* least MIN_SAVE_INTERVAL later.
RateLimitStep ==
    \A u \in Users :
        LET T == s_accounts[u].lastSaveTimestamp
        IN  (T # 0 /\ s_accounts'[u].lastSaveTimestamp # T) =>
              s_accounts'[u].lastSaveTimestamp >= T + MIN_SAVE_INTERVAL

\* C5: for an account whose lastSaveTimestamp is T # 0, an otherwise valid
\* autoSave fails with SaveIntervalNotMet at T + MIN_SAVE_INTERVAL - 1 and at
\* every earlier time and succeeds at T + MIN_SAVE_INTERVAL + 1; any two
\* successful autoSaves on an account, other than the first, are at least
\* MIN_SAVE_INTERVAL apart.
RateLimit == []RateLimitNow /\ [][RateLimitStep]_vars

\* An account that saved at T, one second before the interval is over: the
\* user's next save is refused with SaveIntervalNotMet.
RateLimitWitness ==
    /\ s_accounts[Primary].lastSaveTimestamp # 0
    /\ now = s_accounts[Primary].lastSaveTimestamp + MIN_SAVE_INTERVAL - 1
    /\ OtherwiseValid(Primary, Primary, 1)
    /\ autoSave(Primary, Primary, 1, "exact").err = "SaveIntervalNotMet"

\* An account that saved at T, one second after the interval is over: the
\* next save goes through.
RateLimitPassed ==
    /\ s_accounts[Primary].lastSaveTimestamp # 0
    /\ now = s_accounts[Primary].lastSaveTimestamp + MIN_SAVE_INTERVAL + 1
    /\ OtherwiseValid(Primary, Primary, 1)
    /\ autoSave(Primary, Primary, 1, "exact").err = "ok"

\* In every state: the never-saved sentinel lets an otherwise valid autoSave
\* through whatever the time, and a successful autoSave stamps the account
\* with the current time, which is not zero.
FirstSaveNow ==
    \A u \in Users, c \in Callers, a \in ValidSaveAmounts :
        /\ (s_accounts[u].lastSaveTimestamp = 0 /\ OtherwiseValid(c, u, a)) =>
              /\ autoSave(c, u, a, "exact").err = "ok"
              /\ \A x \in ExchangeAnswers :
                    autoSave(c, u, a, x).err # "SaveIntervalNotMet"
        /\ \A x \in ExchangeAnswers :
              LET o == autoSave(c, u, a, x)
              IN  o.err = "ok" =>
                    /\ o.accounts[u].lastSaveTimestamp = now
                    /\ o.accounts[u].lastSaveTimestamp # 0

\* In every step: a lastSaveTimestamp leaves zero only for the time of the
\* step, and once it is not zero it never is zero again.
FirstSaveStep ==
    \A u \in Users :
        /\ (s_accounts[u].lastSaveTimestamp = 0
              /\ s_accounts'[u].lastSaveTimestamp # 0) =>
                s_accounts'[u].lastSaveTimestamp = now
        /\ s_accounts[u].lastSaveTimestamp # 0 =>
              s_accounts'[u].lastSaveTimestamp # 0

\* C6: the never-saved sentinel bypasses the rate limit exactly once per
\* account: the first autoSave succeeds regardless of the current time; after
\* it lastSaveTimestamp is the time of that save and is not zero, so every
\* later autoSave is subject to the rate-limit check.
FirstSave == []FirstSaveNow /\ [][FirstSaveStep]_vars

\* An account whose only credit is a first save of one unit (less than any
\* deposit can be), made late, at the last time of the model, and stamped
\* with that time: the next save is refused.
FirstSaveWitness ==
    /\ s_accounts[Primary].totalDeposited = 1
    /\ now = MaxTime
    /\ s_accounts[Primary].lastSaveTimestamp = now
    /\ OtherwiseValid(Primary, Primary, 1)
    /\ autoSave(Primary, Primary, 1, "exact").err = "SaveIntervalNotMet"

\* C7: depositFor(user, amount) can only be executed by the backend
\* operator: a call from any other identity, the credited user and the
\* contract owner included, never succeeds and leaves accounts,
\* totalValueLocked, share units and token balances as they were; its error is
\* UnauthorizedCaller (EnforcedPause while the vault is paused).
OnlyBackendCredits ==
    \A c \in Callers, u \in Users, a \in AllAmounts, x \in ExchangeAnswers :
        c # s_backendServer =>
            LET o == depositFor(c, u, a, x)
            IN  /\ o.err # "ok"
                /\ o = Reverted(o.err)
                /\ ~paused => o.err = "UnauthorizedCaller"

\* An account that was credited without paying from its wallet (it never
\* withdrew, and its deposits exceed what left the wallet), in a state where
\* the operator's credit passes and the user's and the owner's are refused.
OnlyBackendCreditsWitness ==
    /\ ~paused
    /\ s_backendServer = BACKEND
    /\ s_accounts[Primary].totalWithdrawn = 0
    /\ s_accounts[Primary].totalDeposited + usdcBalance[Primary] > InitialFunds
    /\ s_accounts[Primary].totalDeposited + MIN_DEPOSIT <= MaxTotal + 1
    /\ depositFor(BACKEND, Primary, MIN_DEPOSIT, "exact").err = "ok"
    /\ depositFor(Primary, Primary, MIN_DEPOSIT, "exact").err = "UnauthorizedCaller"
    /\ depositFor(OWNER, Primary, MIN_DEPOSIT, "exact").err = "UnauthorizedCaller"

\* C8: createAccount by a caller who already has an active account fails
\* with AccountAlreadyExists, whatever its arguments, and leaves the account
\* (balances, totals, weeklyGoal, safetyBuffer, lastSaveTimestamp, trustMode)
\* and everything else untouched, whatever happened since the account was
\* created.
DuplicateAccount ==
    \A c \in Users, g \in 0 .. 2, b \in 0 .. 1, m \in TrustModes :
        s_accounts[c].isActive =>
            /\ createAccount(c, g, b, m).err = "AccountAlreadyExists"
            /\ createAccount(c, g, b, m) = Reverted("AccountAlreadyExists")
            /\ createAccount(c, g, b, m).accounts[c] = s_accounts[c]

\* An account with a history (credited, saved, withdrawn from, switched to
\* AUTO) on which a second createAccount with other arguments is refused.
DuplicateAccountWitness ==
    /\ s_accounts[Primary].isActive
    /\ s_accounts[Primary].trustMode = "AUTO"
    /\ s_accounts[Primary].lastSaveTimestamp # 0
    /\ s_accounts[Primary].totalWithdrawn > 0
    /\ s_accounts[Primary].currentBalance > 0
    /\ createAccount(Primary, 2, 1, "MANUAL").err = "AccountAlreadyExists"

\* The USDC a successful withdraw(amount) by `caller` gets from the pool.
PoolReturn(caller, amount, answer) ==
    withdraw(caller, amount, answer).bal[VAULT] + amount - usdcBalance[VAULT]

\* C9: every successful withdraw(amount) pays the caller exactly amount,
\* decrements currentBalance by exactly amount and increments totalWithdrawn
\* by exactly amount, and touches no other field of the account, however much
\* the pool redemption returned.
NominalWithdraw ==
    \A c \in Users, a \in AllAmounts, x \in ExchangeAnswers :
        LET o == withdraw(c, a, x)
        IN  o.err = "ok" =>
              /\ o.bal[c] = usdcBalance[c] + a
              /\ o.accounts[c].currentBalance = s_accounts[c].currentBalance - a
              /\ o.accounts[c].totalWithdrawn = s_accounts[c].totalWithdrawn + a
              /\ o.accounts[c] =
                    [s_accounts[c] EXCEPT !.currentBalance = @ - a,
                                          !.totalWithdrawn = @ + a]
              /\ \A v \in Users \ {c} : o.accounts[v] = s_accounts[v]

\* An account that withdrew before and whose next withdrawal succeeds after a
\* pool redemption.
NominalWithdrawWitness ==
    /\ s_accounts[Primary].totalWithdrawn > 0
    /\ userLiquidityTokens[Primary] > 0
    /\ \E a \in AllAmounts :
          /\ NeedsYield(a, usdcBalance[VAULT])
          /\ withdraw(Primary, a, "exact").err = "ok"
          /\ PoolReturn(Primary, a, "exact") > 0

\* A successful withdrawal served partly from idle custody and partly from a
\* partial redemption of the caller's pool position.
PartialRedemption ==
    \E c \in Users, a \in AllAmounts, x \in ExchangeAnswers :
        /\ withdraw(c, a, x).err = "ok"
        /\ NeedsYield(a, usdcBalance[VAULT])
        /\ usdcBalance[VAULT] > 0
        /\ withdraw(c, a, x).ult[c] > 0
        /\ withdraw(c, a, x).ult[c] < userLiquidityTokens[c]

\* C10: withdraw(amount) redeems from the pool iff the vault's idle USDC is
\* less than amount and a strategy is configured, and then asks for exactly
\* the shortfall amount - idle: when idle USDC covers the amount or no strategy
\* is set, the share units of every user and their total stay as they are; a
\* successful withdraw with idle USDC below the amount and a strategy set
\* burns shares of the caller, and its share units and token balances are
\* those of _withdrawFromYield(caller, amount - idle) followed by the payment.
ShortfallRedemption ==
    \A c \in Users, a \in AllAmounts, x \in ExchangeAnswers :
        LET idle == usdcBalance[VAULT]
            o == withdraw(c, a, x)
            y == WithdrawFromYield(userLiquidityTokens, totalLiquidityTokens,
                                   usdcBalance, c, a - idle, x)
        IN  /\ (idle >= a \/ s_yieldStrategy = ZERO) =>
                  /\ o.ult = userLiquidityTokens
                  /\ o.tlt = totalLiquidityTokens
            /\ (o.err = "ok" /\ idle >= a) => o.bal[VAULT] = idle - a
            /\ (o.err = "ok" /\ idle < a /\ s_yieldStrategy # ZERO) =>
                  /\ y.err = "ok"
                  /\ o.ult = y.ult
                  /\ o.tlt = y.tlt
                  /\ o.bal = Transfer(y.bal, VAULT, c, a)
                  /\ o.ult[c] < userLiquidityTokens[c]
                  /\ o.tlt < totalLiquidityTokens
                  /\ \A v \in Users \ {c} : o.ult[v] = userLiquidityTokens[v]

\* An account holding shares, in a vault with some idle USDC: one withdrawal
\* is covered by the idle USDC and leaves the shares, a larger one succeeds by
\* redeeming a part of the shares for the shortfall.
ShortfallRedemptionWitness ==
    /\ usdcBalance[VAULT] > 0
    /\ userLiquidityTokens[Primary] > 1
    /\ \E a \in AllAmounts :
          /\ a <= usdcBalance[VAULT]
          /\ withdraw(Primary, a, "exact").err = "ok"
          /\ withdraw(Primary, a, "exact").ult = userLiquidityTokens
    /\ \E a \in AllAmounts :
          /\ a > usdcBalance[VAULT]
          /\ withdraw(Primary, a, "exact").err = "ok"
          /\ withdraw(Primary, a, "exact").ult[Primary] > 0
          /\ withdraw(Primary, a, "exact").ult[Primary] < userLiquidityTokens[Primary]

\* Whether forwarding deposit(amount) of `caller` into the pool fails.
ForwardingFails(caller, amount, answer) ==
    /\ s_yieldStrategy # ZERO
    /\ DepositCheck(caller, amount) = "ok"
    /\ DepositToYield(userLiquidityTokens, totalLiquidityTokens,
                      Transfer(usdcBalance, caller, VAULT, amount),
                      caller, amount, answer).err # "ok"

\* C11: when a strategy is configured and forwarding a deposit into the pool
\* fails, the deposit call does not fail: the ledger credit stands, the USDC
\* stays in the vault and no share units are issued.
ForwardingFailureKeepsCredit ==
    \A c \in Users, a \in AllAmounts, x \in ExchangeAnswers :
        ForwardingFails(c, a, x) =>
            LET o == deposit(c, a, x)
            IN  /\ o.err = "ok"
                /\ o.accounts[c] = Credited(s_accounts[c], a)
                /\ o.bal[VAULT] = usdcBalance[VAULT] + a
                /\ o.ult = userLiquidityTokens

\* C12: totalValueLocked counts idle custody only: while the pool holds share
\* units issued for forwarded deposits and nothing was ever withdrawn, it is
\* below the sum of the accounts' currentBalance by the amounts forwarded.
IdleCustodyOnly ==
    ( /\ totalLiquidityTokens > 0
      /\ \A u \in Users : s_accounts[u].totalWithdrawn = 0 )
        => s_totalValueLocked < TotalBalances

\* ---------------------------------------------------------------------
\* Properties of the strategy
\* ---------------------------------------------------------------------
\* C13: totalLiquidityTokens equals the sum of userLiquidityTokens over all
\* users, in every state reached by successful and failed strategy deposits
\* and withdrawals, and in the outcome of every further deposit or withdraw,
\* whoever calls it and whether it succeeds or fails.
ShareTotal ==
    /\ totalLiquidityTokens = SumOver(userLiquidityTokens, Users)
    /\ \A c \in StrategyCallers, u \in Users, x \in StrategyAnswers :
          /\ \A a \in StrategyAmounts :
                LET r == StrategyDeposit(userLiquidityTokens, totalLiquidityTokens,
                                         usdcBalance, c, u, a, x)
                IN  r.tlt = SumOver(r.ult, Users)
          /\ \A l \in LiquidityInputs(u) :
                LET r == StrategyWithdraw(userLiquidityTokens, totalLiquidityTokens,
                                          usdcBalance, c, u, l, x)
                IN  r.tlt = SumOver(r.ult, Users)

\* Both users hold shares, Primary half of what a deposit of 1000 issued:
\* deposits for two users and a partial withdrawal were committed.
ShareTotalWitness ==
    /\ pair = MockPair
    /\ userLiquidityTokens[Primary] = 500
    /\ userLiquidityTokens["bob"] > 0
    /\ strategyCalls = MaxCalls

\* C14: deposit and withdraw of the strategy fail with OnlyVault for every
\* caller other than the savings vault, whatever the arguments, and change no
\* share units, total or token balance; the vault itself is never refused
\* that way.
OnlyVaultCalls ==
    \A c \in Holders, u \in Users, x \in StrategyAnswers :
        /\ \A a \in StrategyAmounts :
              LET r == StrategyDeposit(userLiquidityTokens, totalLiquidityTokens,
                                       usdcBalance, c, u, a, x)
              IN  IF c # VAULT
                  THEN r = StrategyFail("OnlyVault", userLiquidityTokens,
                                        totalLiquidityTokens, usdcBalance)
                  ELSE r.err # "OnlyVault"
        /\ \A l \in LiquidityInputs(u) :
              LET r == StrategyWithdraw(userLiquidityTokens, totalLiquidityTokens,
                                        usdcBalance, c, u, l, x)
              IN  IF c # VAULT
                  THEN r = StrategyFail("OnlyVault", userLiquidityTokens,
                                        totalLiquidityTokens, usdcBalance)
                  ELSE r.err # "OnlyVault"

\* Primary holds shares that the vault can redeem and can add to, and Primary
\* calling the strategy for the same shares is refused.
OnlyVaultCallsWitness ==
    /\ userLiquidityTokens[Primary] > 0
    /\ StrategyWithdraw(userLiquidityTokens, totalLiquidityTokens, usdcBalance,
                        VAULT, Primary, userLiquidityTokens[Primary],
                        "exact").err = "ok"
    /\ StrategyWithdraw(userLiquidityTokens, totalLiquidityTokens, usdcBalance,
                        Primary, Primary, userLiquidityTokens[Primary],
                        "exact").err = "OnlyVault"
    /\ StrategyDeposit(userLiquidityTokens, totalLiquidityTokens, usdcBalance,
                       VAULT, Primary, 1000, "exact").err = "ok"
    /\ StrategyDeposit(userLiquidityTokens, totalLiquidityTokens, usdcBalance,
                       Primary, Primary, 1000, "exact").err = "OnlyVault"

\* LP amounts above what the user holds.
ExcessLiquidity(user) ==
    { userLiquidityTokens[user] + 1, userLiquidityTokens[user] + 1000 }

\* C15: the vault's withdraw(user, liquidityTokens) on the strategy fails
\* with ZeroAmount when liquidityTokens is 0 and with InsufficientLiquidity
\* when it exceeds the user's tracked share units; either way nothing is
\* burned and nothing is paid.  A withdraw that succeeds asked for a positive
\* amount within the user's share units, and no user's share units ever go
\* below zero.
WithdrawRejections ==
    \A u \in Users, x \in StrategyAnswers :
        LET unchanged(err) == StrategyFail(err, userLiquidityTokens,
                                           totalLiquidityTokens, usdcBalance)
            w(l) == StrategyWithdraw(userLiquidityTokens, totalLiquidityTokens,
                                     usdcBalance, VAULT, u, l, x)
        IN  /\ userLiquidityTokens[u] >= 0
            /\ w(0) = unchanged("ZeroAmount")
            /\ \A l \in ExcessLiquidity(u) : w(l) = unchanged("InsufficientLiquidity")
            /\ \A l \in LiquidityInputs(u) \cup ExcessLiquidity(u) :
                  /\ \A v \in Users : w(l).ult[v] >= 0
                  /\ w(l).tlt >= 0
                  /\ w(l).err = "ok" =>
                        /\ l > 0
                        /\ l <= userLiquidityTokens[u]
                        /\ w(l).ult[u] = userLiquidityTokens[u] - l

\* Primary holds shares after a committed call: withdrawing all of them
\* succeeds, one more is refused, none is refused.
WithdrawRejectionsWitness ==
    /\ strategyCalls > 0
    /\ userLiquidityTokens[Primary] > 0
    /\ StrategyWithdraw(userLiquidityTokens, totalLiquidityTokens, usdcBalance,
                        VAULT, Primary, userLiquidityTokens[Primary],
                        "exact").err = "ok"
    /\ StrategyWithdraw(userLiquidityTokens, totalLiquidityTokens, usdcBalance,
                        VAULT, Primary, userLiquidityTokens[Primary] + 1,
                        "exact").err = "InsufficientLiquidity"
    /\ StrategyWithdraw(userLiquidityTokens, totalLiquidityTokens, usdcBalance,
                        VAULT, Primary, 0, "exact").err = "ZeroAmount"

\* C16: getUserValue(user) is userLiquidityTokens[user] times the pair's
\* live total value (its two reserves) divided by the pair's live total
\* supply, rounded down, and 0 for a user with no position; it follows the
\* reserves as they grow.  Right after the vault deposits a large amount for a
\* user with no position, it is within 5% of the deposit.
UserValueFormula ==
    \A u \in Users :
        LET userLiquidity == userLiquidityTokens[u]
            totalPoolValue == pair.reserve0 + pair.reserve1
            totalPoolSupply == pair.totalSupply
        IN  /\ userLiquidity = 0 => getUserValue(userLiquidityTokens, u) = 0
            /\ totalPoolSupply > 0 =>
                  getUserValue(userLiquidityTokens, u)
                      = (userLiquidity * totalPoolValue) \div totalPoolSupply
            /\ \A a \in StrategyAmounts, x \in StrategyAnswers :
                  LET r == StrategyDeposit(userLiquidityTokens, totalLiquidityTokens,
                                           usdcBalance, VAULT, u, a, x)
                  IN  (r.err = "ok" /\ userLiquidity = 0 /\ a >= 1000) =>
                        /\ getUserValue(r.ult, u) * 100 >= a * 95
                        /\ getUserValue(r.ult, u) * 100 <= a * 105

\* Primary holds a position whose value moved away from its LP tokens as the
\* reserves grew, and bob holds none.
UserValueFormulaWitness ==
    /\ userLiquidityTokens[Primary] > 0
    /\ userLiquidityTokens["bob"] = 0
    /\ pair # MockPair
    /\ getUserValue(userLiquidityTokens, Primary) > userLiquidityTokens[Primary]
    /\ getUserValue(userLiquidityTokens, "bob") = 0

\* Amounts X for which X and then 2X are deposited into an empty pool.
ProportionalAmounts == {3, 42, 500, 1000}

\* The distance between two numbers.
Distance(a, b) == IF a >= b THEN a - b ELSE b - a

\* C17: when the vault deposits X for one user and then 2X for another into an
\* empty pool, the router answering both alike, the second user's share units
\* are twice the first's up to three units of rounding and so is the value
\* getUserValue reports, up to four units; for deposits of 42 units or more
\* the second value is between 1.9 and 2.1 times the first.
ProportionalShares ==
    \A A \in Users, X \in ProportionalAmounts, x \in StrategyAnswers :
        \A B \in Users \ {A} :
            LET rA == StrategyDeposit(userLiquidityTokens, totalLiquidityTokens,
                                      usdcBalance, VAULT, A, X, x)
                rB == StrategyDeposit(rA.ult, rA.tlt, rA.bal, VAULT, B, 2 * X, x)
                valueA == getUserValue(rB.ult, A)
                valueB == getUserValue(rB.ult, B)
            IN  (totalLiquidityTokens = 0 /\ rA.err = "ok" /\ rB.err = "ok") =>
                  /\ rB.ult[A] = rA.amount
                  /\ rB.ult[B] = rB.amount
                  /\ Distance(rB.ult[B], 2 * rB.ult[A]) <= 3
                  /\ Distance(valueB, 2 * valueA) <= 4
                  /\ X >= 42 => /\ valueB * 10 >= valueA * 19
                                /\ valueB * 10 <= valueA * 21

\* The vault's whole balance went into the pool in two deposits, 1000 for
\* Primary and 2000 for bob, and bob's value is about twice Primary's.
ProportionalSharesWitness ==
    /\ strategyCalls = 2
    /\ usdcBalance[VAULT] = 0
    /\ userLiquidityTokens[Primary] > 0
    /\ userLiquidityTokens["bob"] > userLiquidityTokens[Primary]
    /\ Distance(userLiquidityTokens["bob"], 2 * userLiquidityTokens[Primary]) <= 2
    /\ getUserValue(userLiquidityTokens, "bob") * 10
          >= getUserValue(userLiquidityTokens, Primary) * 19
    /\ getUserValue(userLiquidityTokens, "bob") * 10
          <= getUserValue(userLiquidityTokens, Primary) * 21

\* Router answers under which removeLiquidity pays pro rata to the reserves
\* the pair reports.
ProRataAnswers == StrategyAnswers \ {"drained"}

SharesToRedeem(user, usdcNeeded) ==
    LET userShares == userLiquidityTokens[user]
        userCurrentValue ==
            (userShares * (pair.reserve0 + pair.reserve1)) \div pair.totalSupply
    IN  IF usdcNeeded >= userCurrentValue
        THEN userShares
        ELSE (userShares * usdcNeeded) \div userCurrentValue

\* C19: a successful redemption for a shortfall smaller than the user's
\* current pool value burns exactly
\* floor(userShares * usdcNeeded / userCurrentValue) share units, the value
\* being read from the pair's live reserves, and a shortfall of at least that
\* value burns all of the user's share units; so does every successful
\* withdraw that goes to the pool, for the shortfall amount - idle.
ProportionalRedemption ==
    \A c \in Users, x \in ExchangeAnswers :
        /\ \A n \in AllAmounts :
              LET y == WithdrawFromYield(userLiquidityTokens, totalLiquidityTokens,
                                         usdcBalance, c, n, x)
              IN  (y.err = "ok" /\ userLiquidityTokens[c] > 0) =>
                    /\ userLiquidityTokens[c] - y.ult[c] = SharesToRedeem(c, n)
                    /\ totalLiquidityTokens - y.tlt = SharesToRedeem(c, n)
        /\ \A a \in AllAmounts :
              LET o == withdraw(c, a, x)
              IN  (o.err = "ok" /\ NeedsYield(a, usdcBalance[VAULT])) =>
                    userLiquidityTokens[c] - o.ult[c]
                        = SharesToRedeem(c, a - usdcBalance[VAULT])

\* Primary's position is worth more than its share units since the reserves
\* grew: a withdrawal short of that value succeeds by burning a part of the
\* units, fewer than the shortfall counted in units, and a shortfall of the
\* full value burns them all.
ProportionalRedemptionWitness ==
    /\ pair # MockPair
    /\ userLiquidityTokens[Primary] > 1
    /\ \E a \in AllAmounts :
          LET o == withdraw(Primary, a, "exact")
              burned == userLiquidityTokens[Primary] - o.ult[Primary]
          IN  /\ NeedsYield(a, usdcBalance[VAULT])
              /\ o.err = "ok"
              /\ burned > 0
              /\ burned < userLiquidityTokens[Primary]
              /\ burned < a - usdcBalance[VAULT]
    /\ \E n \in AllAmounts :
          LET y == WithdrawFromYield(userLiquidityTokens, totalLiquidityTokens,
                                     usdcBalance, Primary, n, "exact")
          IN  y.err = "ok" /\ y.ult[Primary] = 0

\* ---------------------------------------------------------------------
\* Properties of the strategy's calls to the router
\* ---------------------------------------------------------------------
\* Router answers whose payment does not depend on the minimum asked for.
OfferedAnswers == StrategyAnswers \ {"worst"}

\* The outcome of a strategy call that failed outright.
FailedOutright(r) ==
    /\ r.err # "ok"
    /\ r.ult = userLiquidityTokens
    /\ r.tlt = totalLiquidityTokens
    /\ r.bal = usdcBalance

\* deposit's swap of half the amount: when the router would pay less than the
\* tolerance allows, the deposit fails outright.
SwapBoundOnDeposit ==
    \A u \in Users, a \in StrategyAmounts, x \in OfferedAnswers :
        LET halfAmount == a \div 2
            offered == RouterSwap(halfAmount, 0, x)
        IN  (offered.ok /\ offered.out < MinOutput(halfAmount)) =>
                FailedOutright(StrategyDeposit(userLiquidityTokens,
                                               totalLiquidityTokens, usdcBalance,
                                               VAULT, u, a, x))

\* deposit's addLiquidity: when the router would take less of either token
\* than the tolerance allows, the deposit fails outright.
AddLiquidityBound ==
    \A u \in Users, a \in StrategyAmounts, x \in OfferedAnswers :
        LET halfAmount == a \div 2
            usdtAmount == RouterSwap(halfAmount, MinOutput(halfAmount), x).out
            offered == RouterAddLiquidity(halfAmount, usdtAmount, 0, 0, x)
        IN  ( /\ offered.ok
              /\ \/ offered.amountA < MinOutput(halfAmount)
                 \/ offered.amountB < MinOutput(usdtAmount) ) =>
                FailedOutright(StrategyDeposit(userLiquidityTokens,
                                               totalLiquidityTokens, usdcBalance,
                                               VAULT, u, a, x))

\* withdraw's swap of the USDT it got: when the router would pay less than
\* the tolerance allows, the withdraw fails outright.
SwapBoundOnWithdraw ==
    \A u \in Users, x \in OfferedAnswers :
        \A l \in LiquidityInputs(u) :
            LET removed == RouterRemoveLiquidity(l, 0, 0, x)
                offered == RouterSwap(removed.amountB, 0, x)
            IN  ( /\ removed.ok
                  /\ offered.ok
                  /\ offered.out < MinOutput(removed.amountB) ) =>
                    FailedOutright(StrategyWithdraw(userLiquidityTokens,
                                                    totalLiquidityTokens,
                                                    usdcBalance, VAULT, u, l, x))

\* withdraw's removeLiquidity: when the router would pay less of either token
\* than the tolerance allows on the tokens' pro-rata share of the reserves,
\* the withdraw fails outright.
RemoveLiquidityBound ==
    \A u \in Users, x \in OfferedAnswers :
        \A l \in LiquidityInputs(u) :
            LET offered == RouterRemoveLiquidity(l, 0, 0, x)
                usdcShare == (l * pair.reserve0) \div pair.totalSupply
                usdtShare == (l * pair.reserve1) \div pair.totalSupply
            IN  ( /\ offered.ok
                  /\ \/ offered.amountA < MinOutput(usdcShare)
                     \/ offered.amountB < MinOutput(usdtShare) ) =>
                    FailedOutright(StrategyWithdraw(userLiquidityTokens,
                                                    totalLiquidityTokens,
                                                    usdcBalance, VAULT, u, l, x))

\* The three calls that do carry a bound.
SlippageBoundsOfSwapsAndAdd ==
    SwapBoundOnDeposit /\ AddLiquidityBound /\ SwapBoundOnWithdraw

\* C20: each of the strategy's calls to the router, both swaps, addLiquidity
\* and removeLiquidity, carries a minimum of input * (10000 - tolerance) /
\* 10000, so that a trade the router would fill below that minimum fails
\* outright and leaves share units, total and balances as they were.
SlippageBounds ==
    /\ SwapBoundOnDeposit
    /\ AddLiquidityBound
    /\ SwapBoundOnWithdraw
    /\ RemoveLiquidityBound

\* A state where both kinds of refusal happen: Primary holds shares, a swap
\* at half price fails the vault's deposit and its withdraw outright.
SlippageBoundsOfSwapsWitness ==
    /\ userLiquidityTokens[Primary] >= 1000
    /\ RouterSwap(500, 0, "impact").out < MinOutput(500)
    /\ StrategyDeposit(userLiquidityTokens, totalLiquidityTokens, usdcBalance,
                       VAULT, Primary, 1000, "impact").err = "RouterRevert"
    /\ StrategyWithdraw(userLiquidityTokens, totalLiquidityTokens, usdcBalance,
                        VAULT, Primary, userLiquidityTokens[Primary],
                        "impact").err = "RouterRevert"

\* ---------------------------------------------------------------------
\* Properties of the vault's view functions
\* ---------------------------------------------------------------------
\* C21: getUserTotalBalance(user) is the user's ledger balance plus the live
\* pool value of the user's position when a strategy is configured, and the
\* ledger balance alone when none is.
UserTotalBalance ==
    \A u \in Users :
        getUserTotalBalance(u) =
            IF s_yieldStrategy # ZERO
            THEN s_accounts[u].currentBalance
                     + getUserValue(userLiquidityTokens, u)
            ELSE s_accounts[u].currentBalance

\* The same for an account whose whole balance is idle: with no pool position
\* the total is the ledger balance, strategy or not.
UserTotalBalanceOfIdleAccount ==
    \A u \in Users :
        userLiquidityTokens[u] = 0 =>
            getUserTotalBalance(u) = s_accounts[u].currentBalance

\* C22: canAutoSave(user) is true iff the account is active and either never
\* saved or now >= lastSaveTimestamp + MIN_SAVE_INTERVAL; for an active
\* account it is true exactly when autoSave's rate-limit check lets a save
\* through, that is when an authorized autoSave of a valid amount does not
\* fail with SaveIntervalNotMet.
CanAutoSaveAgrees ==
    \A u \in Users :
        LET acct == s_accounts[u]
        IN  /\ canAutoSave(u) <=>
                  /\ acct.isActive
                  /\ \/ acct.lastSaveTimestamp = 0
                     \/ now >= acct.lastSaveTimestamp + MIN_SAVE_INTERVAL
            /\ acct.isActive =>
                  (canAutoSave(u) <=> ~RateLimited(acct.lastSaveTimestamp, now))
            /\ (acct.isActive /\ ~paused) =>
                  \A c \in Callers, a \in ValidSaveAmounts :
                      Authorized(acct.trustMode, c, u) =>
                          (canAutoSave(u) <=>
                              AutoSaveCheck(c, u, a) # "SaveIntervalNotMet")

\* Primary saved and the window has just elapsed: canAutoSave is true again
\* at the first second it may be, and an authorized save is let through.
CanAutoSaveAgreesWitness ==
    /\ ~paused
    /\ s_accounts[Primary].lastSaveTimestamp # 0
    /\ now = s_accounts[Primary].lastSaveTimestamp + MIN_SAVE_INTERVAL
    /\ canAutoSave(Primary)
    /\ \E c \in Callers : autoSave(c, Primary, 1, "exact").err = "ok"

\* Primary saved and the window has not elapsed: canAutoSave is false.
CanAutoSaveClosed ==
    /\ s_accounts[Primary].lastSaveTimestamp # 0
    /\ now = s_accounts[Primary].lastSaveTimestamp + MIN_SAVE_INTERVAL - 1
    /\ ~canAutoSave(Primary)

\* ---------------------------------------------------------------------
\* Properties of the vault's failures
\* ---------------------------------------------------------------------
\* The state a call leaves when it changes nothing.
NothingChanged(o) ==
    /\ o.accounts = s_accounts
    /\ o.tvl = s_totalValueLocked
    /\ o.ult = userLiquidityTokens
    /\ o.tlt = totalLiquidityTokens
    /\ o.bal = usdcBalance

\* C23: while the vault is not paused, autoSave reports the first failing
\* check in the order AccountNotActive, AmountExceedsLimit (amount 0 or above
\* MAX_SAVE_AMOUNT), UnauthorizedCaller, SaveIntervalNotMet, and whenever one
\* of them fails no account field, totalValueLocked, share unit or token
\* balance changes.
AutoSaveCheckOrder ==
    \A c \in Callers, u \in Users, a \in SaveAmounts, x \in ExchangeAnswers :
        LET acct == s_accounts[u]
            o == autoSave(c, u, a, x)
            badAmount == a = 0 \/ a > MAX_SAVE_AMOUNT
            badCaller == IF acct.trustMode = "AUTO" THEN c # s_backendServer
                         ELSE c # u
            tooEarly == /\ acct.lastSaveTimestamp # 0
                        /\ now < acct.lastSaveTimestamp + MIN_SAVE_INTERVAL
        IN  ~paused =>
              /\ ~acct.isActive => o.err = "AccountNotActive"
              /\ (acct.isActive /\ badAmount) => o.err = "AmountExceedsLimit"
              /\ (acct.isActive /\ ~badAmount /\ badCaller) =>
                    o.err = "UnauthorizedCaller"
              /\ (acct.isActive /\ ~badAmount /\ ~badCaller /\ tooEarly) =>
                    o.err = "SaveIntervalNotMet"
              /\ (~acct.isActive \/ badAmount \/ badCaller \/ tooEarly) =>
                    /\ o.err # "ok"
                    /\ NothingChanged(o)

\* Primary is in AUTO mode inside its rate-limit window and bob has no
\* account, so several checks fail at once and the earliest is reported.
AutoSaveCheckOrderWitness ==
    /\ ~paused
    /\ s_backendServer = BACKEND
    /\ ~s_accounts["bob"].isActive
    /\ s_accounts[Primary].trustMode = "AUTO"
    /\ s_accounts[Primary].lastSaveTimestamp # 0
    /\ autoSave(Primary, "bob", 0, "exact").err = "AccountNotActive"
    /\ autoSave(Primary, Primary, 0, "exact").err = "AmountExceedsLimit"
    /\ autoSave(Primary, Primary, 1, "exact").err = "UnauthorizedCaller"
    /\ autoSave(BACKEND, Primary, 1, "exact").err = "SaveIntervalNotMet"

\* C24: while the vault is not paused, deposit fails with AccountNotActive
\* whenever the caller has no active account, for every amount, and with
\* InvalidAmount whenever an active account deposits less than MIN_DEPOSIT;
\* in both cases nothing changes.
DepositRejections ==
    \A c \in Callers, a \in AllAmounts, x \in ExchangeAnswers :
        LET o == deposit(c, a, x)
        IN  ~paused =>
              /\ ~Account(c).isActive =>
                    /\ o.err = "AccountNotActive"
                    /\ NothingChanged(o)
              /\ (Account(c).isActive /\ a < MIN_DEPOSIT) =>
                    /\ o.err = "InvalidAmount"
                    /\ NothingChanged(o)

\* What deposit does report: InvalidAmount for every amount below MIN_DEPOSIT
\* whoever calls, AccountNotActive for a caller with no active account and an
\* amount of at least MIN_DEPOSIT; nothing changes in either case.
DepositRejectionsAmountFirst ==
    \A c \in Callers, a \in AllAmounts, x \in ExchangeAnswers :
        LET o == deposit(c, a, x)
        IN  ~paused =>
              /\ a < MIN_DEPOSIT =>
                    /\ o.err = "InvalidAmount"
                    /\ NothingChanged(o)
              /\ (~Account(c).isActive /\ a >= MIN_DEPOSIT) =>
                    /\ o.err = "AccountNotActive"
                    /\ NothingChanged(o)

\* Whether autoSave(user, amount) by `caller` passes every check ahead of the
\* transfer.
PassesSaveChecks(caller, user, amount) ==
    /\ ~paused
    /\ Account(user).isActive
    /\ amount > 0
    /\ amount <= MAX_SAVE_AMOUNT
    /\ Authorized(Account(user).trustMode, caller, user)
    /\ ~RateLimited(Account(user).lastSaveTimestamp, now)

\* C25: when autoSave passes its checks and the transfer of amount from the
\* user fails, the call fails and nothing changes: totalDeposited,
\* currentBalance, totalValueLocked and lastSaveTimestamp are as before, so
\* the rate-limit window, or the first-save exemption, is still open.
FailedTransferIsAtomic ==
    \A c \in Callers, u \in Users, a \in ValidSaveAmounts, x \in ExchangeAnswers :
        LET o == autoSave(c, u, a, x)
        IN  (PassesSaveChecks(c, u, a) /\ usdcBalance[u] < a) =>
              /\ o.err = "ERC20InsufficientBalance"
              /\ NothingChanged(o)
              /\ o.accounts[u].totalDeposited = s_accounts[u].totalDeposited
              /\ o.accounts[u].currentBalance = s_accounts[u].currentBalance
              /\ o.accounts[u].lastSaveTimestamp = s_accounts[u].lastSaveTimestamp
              /\ ~RateLimited(o.accounts[u].lastSaveTimestamp, now)

\* Primary never saved and holds less than an amount it asks to save: that
\* save fails on the transfer and a smaller one still goes through as the
\* first save.
FailedTransferIsAtomicWitness ==
    /\ s_accounts[Primary].lastSaveTimestamp = 0
    /\ usdcBalance[Primary] > 0
    /\ \E a \in ValidSaveAmounts :
          /\ PassesSaveChecks(Primary, Primary, a)
          /\ usdcBalance[Primary] < a
          /\ autoSave(Primary, Primary, a, "exact").err = "ERC20InsufficientBalance"
    /\ autoSave(Primary, Primary, 1, "exact").err = "ok"

\* ---------------------------------------------------------------------
\* Properties of the backend's save flow
\* ---------------------------------------------------------------------
\* C26: saves credited through POST /api/save keep the 24-hour cooldown: a
\* save that was settled and credited closes the flow's rate-limit gate, so
\* that on the account it leaves canAutoSave is false until
\* MIN_SAVE_INTERVAL has passed and no second save can be credited earlier.
ApiSaveCooldown ==
    \A u \in Users, a \in SettleAmounts, x \in ExchangeAnswers :
        LET o == apiSave(u, a, x)
            acct == o.accounts[u]
        IN  o.err = "ok" =>
              /\ acct.lastSaveTimestamp # 0
              /\ now < acct.lastSaveTimestamp + MIN_SAVE_INTERVAL

\* ---------------------------------------------------------------------
\* Properties of the pause
\* ---------------------------------------------------------------------
\* While paused, the four money-moving functions fail and change nothing;
\* createAccount is not refused for the pause; only the owner passes the
\* checks of pause and unpause.
PauseNow ==
    /\ paused =>
          \A c \in Callers, u \in Users, x \in ExchangeAnswers :
              /\ \A a \in AllAmounts :
                    /\ deposit(c, a, x).err = "EnforcedPause"
                    /\ NothingChanged(deposit(c, a, x))
                    /\ depositFor(c, u, a, x).err = "EnforcedPause"
                    /\ NothingChanged(depositFor(c, u, a, x))
                    /\ withdraw(c, a, x).err = "EnforcedPause"
                    /\ NothingChanged(withdraw(c, a, x))
              /\ \A a \in SaveAmounts :
                    /\ autoSave(c, u, a, x).err = "EnforcedPause"
                    /\ NothingChanged(autoSave(c, u, a, x))
    /\ \A c \in Users, g \in GoalInputs, m \in TrustModes :
          /\ createAccount(c, g, 0, m).err # "EnforcedPause"
          /\ (~s_accounts[c].isActive /\ g > 0) =>
                /\ createAccount(c, g, 0, m).err = "ok"
                /\ createAccount(c, g, 0, m).accounts[c].isActive
    /\ \A c \in Callers \ {OWNER} :
          /\ pause(c) = "OwnableUnauthorizedAccount"
          /\ unpause(c) = "OwnableUnauthorizedAccount"
    /\ pause(OWNER) = (IF paused THEN "EnforcedPause" ELSE "ok")
    /\ unpause(OWNER) = (IF paused THEN "ok" ELSE "ExpectedPause")

\* A step that pauses or unpauses changes nothing else, so that the vault
\* after unpause is the vault before the pause; a step taken while paused
\* moves no ledger balance, total or share unit and takes no USDC out of the
\* vault (a payment settled by the facilitator can still bring USDC in).
PauseStep ==
    /\ paused' # paused =>
          UNCHANGED << ledgerVars, s_yieldStrategy, s_backendServer, pair, now >>
    /\ (paused /\ paused') =>
          /\ \A u \in Users :
                /\ s_accounts'[u].currentBalance = s_accounts[u].currentBalance
                /\ s_accounts'[u].totalDeposited = s_accounts[u].totalDeposited
                /\ s_accounts'[u].totalWithdrawn = s_accounts[u].totalWithdrawn
                /\ s_accounts'[u].lastSaveTimestamp = s_accounts[u].lastSaveTimestamp
          /\ s_totalValueLocked' = s_totalValueLocked
          /\ userLiquidityTokens' = userLiquidityTokens
          /\ totalLiquidityTokens' = totalLiquidityTokens
          /\ usdcBalance'[VAULT] >= usdcBalance[VAULT]

\* C27: while the vault is paused, deposit, depositFor, autoSave and
\* withdraw fail for every caller and amount and change no state; pausing and
\* unpausing change nothing but the flag, so after unpause the functions
\* behave as before the pause; createAccount is not blocked by the pause; only
\* the owner can pause or unpause.
PauseBlocks == []PauseNow /\ [][PauseStep]_vars

\* The vault is paused while Primary holds a balance it could withdraw and
\* USDC it could deposit, and bob can still create an account.
PauseBlocksWitness ==
    /\ paused
    /\ s_accounts[Primary].currentBalance > 0
    /\ usdcBalance[Primary] >= MIN_DEPOSIT
    /\ usdcBalance[VAULT] >= 1
    /\ DepositCheckIgnoresPause(Primary, MIN_DEPOSIT) = "ok"
    /\ deposit(Primary, MIN_DEPOSIT, "exact").err = "EnforcedPause"
    /\ withdraw(Primary, 1, "exact").err = "EnforcedPause"
    /\ createAccount("bob", 1, 0, "MANUAL").err = "ok"

\* ---------------------------------------------------------------------
\* Properties of the account setters
\* ---------------------------------------------------------------------
\* Whether an outcome leaves every account's trustMode as it is.
KeepsTrustModes(o) ==
    \A u \in Users : o.accounts[u].trustMode = s_accounts[u].trustMode

\* Goals passed to updateGoal.
GoalValues == {1, 2}

\* updateTrustMode by the owner of an active account succeeds, paused or
\* not, and writes trustMode alone; on an account that has no active record
\* it fails; applied to a state that already has the mode, and updateGoal to
\* a state that already has the goal, it changes nothing; no other function
\* writes a trustMode.
TrustModeNow ==
    /\ \A c \in Users, m \in TrustModes :
          LET o == updateTrustMode(c, m)
          IN  /\ s_accounts[c].isActive =>
                    /\ o.err = "ok"
                    /\ o.accounts = [s_accounts EXCEPT ![c].trustMode = m]
                    /\ o.tvl = s_totalValueLocked
                    /\ o.ult = userLiquidityTokens
                    /\ o.tlt = totalLiquidityTokens
                    /\ o.bal = usdcBalance
                    /\ s_accounts[c].trustMode = m => NothingChanged(o)
              /\ ~s_accounts[c].isActive =>
                    o.err = "AccountNotActive" /\ NothingChanged(o)
    /\ \A c \in Users, g \in GoalValues :
          LET o == updateGoal(c, g)
          IN  /\ s_accounts[c].isActive =>
                    /\ o.err = "ok"
                    /\ o.accounts = [s_accounts EXCEPT ![c].weeklyGoal = g]
                    /\ s_accounts[c].weeklyGoal = g => NothingChanged(o)
              /\ KeepsTrustModes(o)
    /\ \A c \in Callers, u \in Users, x \in ExchangeAnswers :
          /\ \A a \in AllAmounts :
                /\ KeepsTrustModes(deposit(c, a, x))
                /\ KeepsTrustModes(depositFor(c, u, a, x))
                /\ KeepsTrustModes(withdraw(c, a, x))
                /\ KeepsTrustModes(apiSave(u, a, x))
          /\ \A a \in SaveAmounts : KeepsTrustModes(autoSave(c, u, a, x))

\* A step that changes the trustMode of an active account changes that field
\* of that account and nothing else: it is the account owner's
\* updateTrustMode.
TrustModeStep ==
    \A u \in Users :
        ( /\ s_accounts[u].isActive
          /\ s_accounts'[u].trustMode # s_accounts[u].trustMode ) =>
            /\ s_accounts' = updateTrustMode(u, s_accounts'[u].trustMode).accounts
            /\ s_accounts' =
                  [s_accounts EXCEPT ![u].trustMode = s_accounts'[u].trustMode]
            /\ UNCHANGED << s_totalValueLocked, userLiquidityTokens,
                            totalLiquidityTokens, usdcBalance, adminVars, pair,
                            now >>

\* C28: the trustMode of an active account changes only through
\* updateTrustMode called by the account's owner; the call succeeds whenever
\* the account is active and changes no other field; deposit, depositFor,
\* autoSave, withdraw, updateGoal and the admin setters never change a
\* trustMode; updateTrustMode and updateGoal applied twice with the same
\* argument leave the state of the first application.
TrustModeFrame == []TrustModeNow /\ [][TrustModeStep]_vars

\* Primary, with a balance and a save on record, is in AUTO mode: setting
\* AUTO again changes nothing and setting MANUAL changes the mode alone, also
\* while the vault is paused.
TrustModeFrameWitness ==
    /\ paused
    /\ s_accounts[Primary].isActive
    /\ s_accounts[Primary].trustMode = "AUTO"
    /\ s_accounts[Primary].currentBalance > 0
    /\ s_accounts[Primary].lastSaveTimestamp # 0
    /\ updateTrustMode(Primary, "AUTO").accounts = s_accounts
    /\ updateTrustMode(Primary, "MANUAL").accounts[Primary] =
          [s_accounts[Primary] EXCEPT !.trustMode = "MANUAL"]

\* ---------------------------------------------------------------------
\* Properties of the admin setters
\* ---------------------------------------------------------------------
\* Only the owner passes the checks of the two setters, and not with the zero
\* address; exactly the configured operator passes the caller check of
\* depositFor and the authorization of autoSave on an AUTO-mode account; with
\* no operator configured no caller does.
OperatorNow ==
    /\ \A c \in AdminCallers :
          /\ \A s \in AdminServerInputs :
                setBackendServer(c, s) =
                    IF c # OWNER THEN "OwnableUnauthorizedAccount"
                    ELSE IF s = ZERO THEN "ZeroAddress"
                    ELSE "ok"
          /\ \A s \in StrategyInputs :
                setYieldStrategy(c, s) =
                    IF c # OWNER THEN "OwnableUnauthorizedAccount"
                    ELSE IF s = ZERO THEN "ZeroAddress"
                    ELSE "ok"
    /\ \A c \in AdminCallers, u \in Users, x \in ExchangeAnswers :
          /\ \A a \in AllAmounts :
                /\ c # s_backendServer =>
                      /\ depositFor(c, u, a, x).err = "UnauthorizedCaller"
                      /\ NothingChanged(depositFor(c, u, a, x))
                /\ c = s_backendServer =>
                      depositFor(c, u, a, x).err # "UnauthorizedCaller"
          /\ \A a \in ValidSaveAmounts :
                (s_accounts[u].isActive /\ s_accounts[u].trustMode = "AUTO") =>
                    /\ c # s_backendServer =>
                          /\ autoSave(c, u, a, x).err = "UnauthorizedCaller"
                          /\ NothingChanged(autoSave(c, u, a, x))
                    /\ c = s_backendServer =>
                          autoSave(c, u, a, x).err # "UnauthorizedCaller"
    /\ s_backendServer = ZERO =>
          \A c \in AdminCallers, u \in Users, x \in ExchangeAnswers :
              /\ \A a \in AllAmounts : depositFor(c, u, a, x).err # "ok"
              /\ \A a \in ValidSaveAmounts :
                    s_accounts[u].trustMode = "AUTO" =>
                        autoSave(c, u, a, x).err # "ok"

\* A step that changes the operator or the strategy sets a non-zero address
\* and changes nothing else, and the operator it replaces is refused in the
\* state it leaves.
OperatorStep ==
    /\ s_backendServer' # s_backendServer =>
          /\ s_backendServer' # ZERO
          /\ UNCHANGED << ledgerVars, s_yieldStrategy, paused, pair, now >>
          /\ \A old \in AdminCallers :
                old = s_backendServer =>
                    /\ (depositFor(old, Primary, MIN_DEPOSIT, "exact").err
                            = "UnauthorizedCaller")'
                    /\ (Account(Primary).trustMode = "AUTO" =>
                            autoSave(old, Primary, 1, "exact").err
                                = "UnauthorizedCaller")'
    /\ s_yieldStrategy' # s_yieldStrategy =>
          /\ s_yieldStrategy' # ZERO
          /\ UNCHANGED << ledgerVars, s_backendServer, paused, pair, now >>

\* C29: only the owner can change the backend server or the yield strategy,
\* and never to the zero address; at every moment exactly the configured
\* operator passes the depositFor check and the AUTO-mode autoSave check, an
\* operator that was replaced is refused from then on, and while no operator
\* is configured no caller can credit a deposit or auto-save an AUTO-mode
\* account.
OperatorControl == []OperatorNow /\ [][OperatorStep]_vars

\* The second backend wallet is the operator of a vault that already
\* credited Primary, an AUTO-mode account: its calls pass and the first
\* wallet's are refused.
OperatorControlWitness ==
    /\ s_backendServer = NEW_BACKEND
    /\ s_accounts[Primary].trustMode = "AUTO"
    /\ s_accounts[Primary].currentBalance > 0
    /\ depositFor(BACKEND, Primary, MIN_DEPOSIT, "exact").err = "UnauthorizedCaller"
    /\ autoSave(BACKEND, Primary, 1, "exact").err = "UnauthorizedCaller"
    /\ autoSave(NEW_BACKEND, Primary, 1, "exact").err # "UnauthorizedCaller"
    /\ setBackendServer(NEW_BACKEND, BACKEND) = "OwnableUnauthorizedAccount"

\* ---------------------------------------------------------------------
\* Share units left behind by a full withdrawal
\* ---------------------------------------------------------------------
\* C30: a user who withdraws their entire remaining currentBalance, bringing
\* it to 0, holds no share units afterwards: no share unit stays on an account
\* whose ledger balance is zero.
DustRedeemable ==
    \A c \in Users, x \in ExchangeAnswers :
        LET w == withdraw(c, Account(c).currentBalance, x)
        IN  (Account(c).currentBalance > 0 /\ w.err = "ok") =>
                /\ w.accounts[c].currentBalance = 0
                /\ w.ult[c] = 0

\* ---------------------------------------------------------------------
\* Reentrancy
\* ---------------------------------------------------------------------
FramesOf(contract) == {i \in DOMAIN stack : stack[i].contract = contract}

\* The money the ledgers account for: custody, share units, the balance
\* fields of the accounts and their total.
MoneyFields ==
    << usdcBalance, userLiquidityTokens, totalLiquidityTokens, s_totalValueLocked,
       [u \in Users |-> << s_accounts[u].totalDeposited,
                           s_accounts[u].totalWithdrawn,
                           s_accounts[u].currentBalance,
                           s_accounts[u].lastSaveTimestamp >>] >>

\* At most one guarded function of each contract is executing, the guard of a
\* contract is held exactly while one is, and a call of deposit, depositFor,
\* autoSave or withdraw made while one of them executes is refused by the
\* guard, as is a call of the strategy made by anyone but the vault or while
\* the strategy executes.
ReentryNow ==
    /\ Cardinality(FramesOf("vault")) <= 1
    /\ Cardinality(FramesOf("strategy")) <= 1
    /\ entered.vault <=> FramesOf("vault") # {}
    /\ entered.strategy <=> FramesOf("strategy") # {}
    /\ FramesOf("strategy") # {} => FramesOf("vault") # {}
    /\ stack # << >> =>
          \A op \in GuardedOps, c \in Callers, u \in Users, a \in AllAmounts :
              VaultEntry(op, c, u, a) = "ReentrancyGuardReentrantCall"
    /\ \A c \in Callers : StrategyEntry(c) = "OnlyVault"
    /\ entered.strategy => StrategyEntry(VAULT) = "ReentrancyGuardReentrantCall"

\* A call that starts finds the guard of its contract free, and whatever runs
\* inside an external call that has not returned moves no money and changes no
\* balance.
ReentryStep ==
    /\ \A i \in DOMAIN stack' :
          i > Len(stack) => ~entered[stack'[i].contract]
    /\ (stack # << >> /\ stack' = stack) => UNCHANGED MoneyFields

\* C31: every external call may call back before it returns; while deposit,
\* depositFor, autoSave or withdraw of the vault executes, no call of any of
\* the four can execute, and likewise for the strategy's deposit and
\* withdraw, so that none of them ever runs on a state in which custody has
\* moved or shares were burned while the balances are not updated yet.
NoReentry == []ReentryNow /\ [][ReentryStep]_vars

\* The strategy burned the shares of a withdraw and has not paid the vault
\* yet, the account is not debited yet, and only the guard keeps the user from
\* withdrawing again.
NoReentryWitness ==
    /\ Len(stack) = 2
    /\ Top.contract = "strategy"
    /\ Top.op = "withdraw"
    /\ Top.pos = "safeTransfer"
    /\ usdcBalance[STRATEGY] > 0
    /\ WithdrawCheck(Top.user, 1) = "ok"
    /\ VaultEntry("withdraw", Top.user, Top.user, 1) = "ReentrancyGuardReentrantCall"

\* ---------------------------------------------------------------------
\* Withdrawals against one account
\* ---------------------------------------------------------------------
\* The withdrawals of `user` that debited the account and have not paid yet.
OwedFrames(user) ==
    {i \in DOMAIN stack : /\ stack[i].contract = "vault"
                          /\ stack[i].op = "withdraw"
                          /\ stack[i].caller = user
                          /\ stack[i].pos = "safeTransfer"}

Owed(user) == SumOver([i \in OwedFrames(user) |-> stack[i].amount], OwedFrames(user))

\* At most one withdraw executes at a time, no account is overdrawn, and a
\* withdraw of more than the account holds is refused.
DoubleSpendNow ==
    /\ Cardinality({i \in DOMAIN stack : stack[i].op = "withdraw"
                                         /\ stack[i].contract = "vault"}) <= 1
    /\ \A u \in Users :
          /\ s_accounts[u].currentBalance >= 0
          /\ s_accounts[u].totalWithdrawn + s_accounts[u].currentBalance
                = s_accounts[u].totalDeposited
          /\ \A a \in AllAmounts :
                a > s_accounts[u].currentBalance =>
                    /\ WithdrawCheck(u, a) # "ok"
                    /\ withdraw(u, a, "exact").err # "ok"

\* A debit of d charges the account exactly d, leaves exactly d to be paid,
\* and from then on a second withdraw that would bring the sum above the
\* balance held before is refused; a payment to a wallet pays exactly what a
\* debit left to be paid.
DoubleSpendStep ==
    \A u \in Users :
        LET held == s_accounts[u].currentBalance
            debit == held - s_accounts'[u].currentBalance
            paid == usdcBalance'[u] - usdcBalance[u]
        IN  /\ debit > 0 =>
                  /\ s_accounts'[u].totalWithdrawn = s_accounts[u].totalWithdrawn + debit
                  /\ Owed(u)' = Owed(u) + debit
                  /\ \A b \in AllAmounts :
                        debit + b > held => (WithdrawCheck(u, b) # "ok")'
            /\ paid > 0 => Owed(u)' = Owed(u) - paid

\* C32: however withdraw requests against one account interleave, they take
\* effect one at a time and the account is never paid more than the balance
\* it held before them: two withdrawals whose sum exceeds currentBalance
\* cannot both succeed.
NoDoubleSpend == []DoubleSpendNow /\ [][DoubleSpendStep]_vars

\* An account that held 3 has been paid in two withdrawals (of 1 and of 2)
\* and holds nothing: a further withdraw is refused.
NoDoubleSpendWitness ==
    \E u \in Users :
        /\ stack = << >>
        /\ s_accounts[u].totalWithdrawn = 3
        /\ s_accounts[u].currentBalance = 0
        /\ usdcBalance[u] = InitialFunds
        /\ WithdrawCheck(u, 1) = "InsufficientBalance"

\* ---------------------------------------------------------------------
\* The split of a strategy deposit
\* ---------------------------------------------------------------------
\* C33: a strategy deposit of amount > 0 pulls exactly amount from the vault,
\* and the USDC it swaps plus the USDC it offers as liquidity equal amount,
\* odd amounts included: with a router that takes all it is offered, no
\* deposited unit stays in the strategy.
WholeAmountSplit ==
    \A u \in Users, a \in StrategyAmounts :
        LET r == StrategyDeposit(userLiquidityTokens, totalLiquidityTokens,
                                 usdcBalance, VAULT, u, a, "exact")
        IN  (a > 0 /\ r.err = "ok") =>
                /\ r.bal[VAULT] = usdcBalance[VAULT] - a
                /\ r.bal[STRATEGY] = usdcBalance[STRATEGY]
                /\ (a \div 2) + (a \div 2) = a

\* ---------------------------------------------------------------------
\* Share units follow the router's report
\* ---------------------------------------------------------------------
\* The LP tokens the router reports for a deposit of `amount`.
ReportedLiquidity(amount, answer) ==
    LET halfAmount == amount \div 2
        swap == RouterSwap(halfAmount, MinOutput(halfAmount), answer)
    IN  RouterAddLiquidity(halfAmount, swap.out, MinOutput(halfAmount),
                           MinOutput(swap.out), answer).liquidity

\* C34: a strategy deposit increases the user's share units and the total by
\* exactly the LP tokens the router reported for it, whatever that number is,
\* and no other user's; a strategy withdraw decreases the user's share units
\* and the total by exactly the liquidityTokens requested, and no other
\* user's.
SharesFollowReport ==
    \A u \in Users, x \in StrategyAnswers :
        /\ \A a \in StrategyAmounts :
              LET r == StrategyDeposit(userLiquidityTokens, totalLiquidityTokens,
                                       usdcBalance, VAULT, u, a, x)
              IN  r.err = "ok" =>
                      /\ r.amount = ReportedLiquidity(a, x)
                      /\ r.ult[u] = userLiquidityTokens[u] + ReportedLiquidity(a, x)
                      /\ r.tlt = totalLiquidityTokens + ReportedLiquidity(a, x)
                      /\ \A v \in Users \ {u} : r.ult[v] = userLiquidityTokens[v]
        /\ \A l \in LiquidityInputs(u) :
              LET w == StrategyWithdraw(userLiquidityTokens, totalLiquidityTokens,
                                        usdcBalance, VAULT, u, l, x)
              IN  w.err = "ok" =>
                      /\ w.ult[u] = userLiquidityTokens[u] - l
                      /\ w.tlt = totalLiquidityTokens - l
                      /\ \A v \in Users \ {u} : w.ult[v] = userLiquidityTokens[v]

\* Both users hold share units, a deposit is on offer for which the router
\* reports fewer LP tokens than the amount deposited, and so is a withdraw of
\* a part of a position.
SharesFollowReportWitness ==
    /\ \A u \in Users : userLiquidityTokens[u] > 0
    /\ \E u \in Users, a \in StrategyAmounts, x \in StrategyAnswers :
          LET r == StrategyDeposit(userLiquidityTokens, totalLiquidityTokens,
                                   usdcBalance, VAULT, u, a, x)
          IN  r.err = "ok" /\ r.amount > 0 /\ r.amount < a
    /\ \E u \in Users, x \in StrategyAnswers : \E l \in LiquidityInputs(u) :
          /\ l < userLiquidityTokens[u]
          /\ StrategyWithdraw(userLiquidityTokens, totalLiquidityTokens,
                              usdcBalance, VAULT, u, l, x).err = "ok"

\* ---------------------------------------------------------------------
\* The share amount withdraw passes to the strategy
\* ---------------------------------------------------------------------
\* C35: whenever withdraw redeems from the pool for a user who holds share
\* units, the share amount it passes to the strategy is between 1 and the
\* user's share units, so a withdraw of 0 < amount <= currentBalance never
\* fails with the strategy's ZeroAmount or InsufficientLiquidity.
RedeemsAtLeastOneShare ==
    \A c \in Users, a \in AllAmounts, x \in ExchangeAnswers :
        (/\ WithdrawCheck(c, a) = "ok"
         /\ NeedsYield(a, usdcBalance[VAULT])
         /\ userLiquidityTokens[c] > 0) =>
            /\ SharesToRedeem(c, Needed(a, usdcBalance[VAULT])) >= 1
            /\ SharesToRedeem(c, Needed(a, usdcBalance[VAULT])) <= userLiquidityTokens[c]
            /\ withdraw(c, a, x).err \notin {"ZeroAmount", "InsufficientLiquidity"}

\* ---------------------------------------------------------------------
\* The size of a credit
\* ---------------------------------------------------------------------
\* C40: no operation credits an account with a dust amount: every successful
\* deposit, depositFor or autoSave increases currentBalance by at least
\* MIN_DEPOSIT and, for autoSave, by at most MAX_SAVE_AMOUNT.
NoDustCredit ==
    \A c \in Callers, u \in Users, a \in AllAmounts, x \in ExchangeAnswers :
        LET d == deposit(c, a, x)
            f == depositFor(c, u, a, x)
            s == autoSave(c, u, a, x)
            held == Account(u).currentBalance
        IN  /\ d.err = "ok" =>
                  d.accounts[c].currentBalance >= Account(c).currentBalance + MIN_DEPOSIT
            /\ f.err = "ok" => f.accounts[u].currentBalance >= held + MIN_DEPOSIT
            /\ s.err = "ok" =>
                  /\ s.accounts[u].currentBalance >= held + MIN_DEPOSIT
                  /\ s.accounts[u].currentBalance <= held + MAX_SAVE_AMOUNT

\* The part that holds: deposit and depositFor credit at least MIN_DEPOSIT,
\* and autoSave credits between one unit and MAX_SAVE_AMOUNT.
NoDustCreditOfDeposits ==
    \A c \in Callers, u \in Users, a \in AllAmounts, x \in ExchangeAnswers :
        LET d == deposit(c, a, x)
            f == depositFor(c, u, a, x)
            s == autoSave(c, u, a, x)
            held == Account(u).currentBalance
        IN  /\ d.err = "ok" =>
                  d.accounts[c].currentBalance >= Account(c).currentBalance + MIN_DEPOSIT
            /\ f.err = "ok" => f.accounts[u].currentBalance >= held + MIN_DEPOSIT
            /\ s.err = "ok" =>
                  /\ s.accounts[u].currentBalance >= held + 1
                  /\ s.accounts[u].currentBalance <= held + MAX_SAVE_AMOUNT

\* ---------------------------------------------------------------------
\* Properties of the POST /api/save flow
\* ---------------------------------------------------------------------
PaymentSteps == {"verify", "settle", "depositFor"}

RefusedEarly == {"Invalid amount", "Rate limit exceeded", "payment_required"}

\* A request is at settlement only with a header that verified, and at
\* depositFor only with a header that was settled on chain and a payment id
\* marked settled; no settlement was attempted for a header that fails the
\* verification and no credit sent for a header that was not settled; a
\* request without a header gets no further than the 402 challenge.
PaymentOrderNow ==
    /\ \A r \in Requests :
          LET q == requests[r]
          IN  /\ q.pc = "settle" => q.header \in SignedHeaders
              /\ q.pc = "depositFor" =>
                    /\ q.header \in usedNonces
                    /\ pendingPayments[q.paymentId]
              /\ q.header = "none" =>
                    /\ q.pc \notin PaymentSteps
                    /\ q.pc = "done" => q.response \in RefusedEarly
              /\ PaymentGate(TRUE, "none", q.paymentId) = "payment_required"
    /\ \A h \in Headers \ SignedHeaders :
          /\ calls[h].settle = 0
          /\ calls[h].depositFor = 0
          /\ h \notin usedNonces
    /\ calls["none"].verify = 0
    /\ \A h \in Headers :
          /\ calls[h].depositFor <= calls[h].settled
          /\ calls[h].settled <= calls[h].verify
          /\ calls[h].settled > 0 <=> h \in usedNonces

\* USDC moves into the vault only in a settlement step of a request whose
\* header verified, and depositFor is sent only by a request whose payment
\* was settled before.
PaymentOrderStep ==
    /\ usdcBalance'[VAULT] # usdcBalance[VAULT] =>
          \E r \in Requests :
              /\ requests[r].pc = "settle"
              /\ requests[r].header \in SignedHeaders
              /\ requests'[r].pc = "depositFor"
    /\ \A h \in Headers :
          calls'[h].depositFor # calls[h].depositFor =>
              /\ h \in usedNonces
              /\ \E r \in Requests : /\ requests[r].pc = "depositFor"
                                     /\ requests[r].header = h
                                     /\ pendingPayments[requests[r].paymentId]

SettledIdRejected ==
    \A r \in Requests :
        requests[r].late =>
            /\ requests[r].pc \notin PaymentSteps
            /\ requests[r].pc = "done" =>
                  requests[r].response = "Payment already processed"

\* A later request with a settled paymentId never reaches verifyAndSettle or
\* depositFor; it is answered 'Payment already processed' when it carries a
\* payment header and passes the validation and the rate check, and with the
\* answer of the check it fails otherwise.
SettledIdNow ==
    /\ \A r \in Requests :
          LET q == requests[r]
          IN  q.late =>
                /\ pendingPayments[q.paymentId]
                /\ q.pc \notin PaymentSteps
                /\ q.pc = "done" =>
                      q.response =
                          IF ValidateBody(q.amount) # "ok" THEN ValidateBody(q.amount)
                          ELSE IF q.response = "Rate limit exceeded" THEN q.response
                          ELSE IF q.header = "none" THEN "payment_required"
                          ELSE "Payment already processed"
    /\ \A p \in PaymentIds, h \in Headers \ {"none"} :
          pendingPayments[p] => PaymentGate(TRUE, h, p) = "Payment already processed"
    /\ \A p \in PaymentIds :
          pendingPayments[p] => \E h \in SignedHeaders : calls[h].settled > 0

\* A paymentId is marked settled in the step in which the settlement of a
\* request carrying it reports payment.settled, and stays marked.
SettledIdStep ==
    \A p \in PaymentIds :
        /\ pendingPayments[p] => pendingPayments'[p]
        /\ (~pendingPayments[p] /\ pendingPayments'[p]) =>
              \E r \in Requests :
                  /\ requests[r].pc = "settle"
                  /\ requests[r].paymentId = p
                  /\ requests'[r].pc = "depositFor"
                  /\ calls'[requests[r].header].settled
                        = calls[requests[r].header].settled + 1

\* C37, amended: a later request carrying a settled paymentId never calls
\* verifyAndSettle or depositFor; it is rejected with 'Payment already
\* processed' when it carries a payment header and passes the body validation
\* and the canAutoSave check, and with that check's answer otherwise; a
\* paymentId is marked settled only when verifyAndSettle returned ok for it.
SettledId == []SettledIdNow /\ [][SettledIdStep]_vars

\* A request that arrived after its paymentId was settled and credited was
\* rejected with 'Payment already processed'.
SettledIdWitness ==
    \E r, t \in Requests :
        /\ requests[r].response = "ok"
        /\ requests[t].late
        /\ requests[t].paymentId = requests[r].paymentId
        /\ requests[t].header = requests[r].header
        /\ requests[t].response = "Payment already processed"

\* verifyAndSettle returned ok to the request.
Settled(r) ==
    \/ requests[r].pc = "depositFor"
    \/ requests[r].response \in {"ok", "deposit_failed"}

SettledIsCredited ==
    \A r \in Requests :
        ~(/\ pendingPayments[requests[r].paymentId]
          /\ requests[r].response = "deposit_failed"
          /\ s_accounts[Primary].totalDeposited < usdcBalance[VAULT]
          /\ PaymentGate(TRUE, requests[r].header, requests[r].paymentId)
                = "Payment already processed")

====
